---- MODULE Spec2Model ----
(***************************************************************************)
(* Model of the ptask library of super-surface-player (src/src/api/ptask.c *)
(* and src/inc/api/ptask.h).                                               *)
(*                                                                         *)
(* Part 1: the Cyclic Asynchronous Buffer (CAB).  One CAB, initialised by  *)
(* ptask_cab_init with n buffers, used by one writer task and NumReaders   *)
(* reader tasks.  Every CAB function runs inside the CAB mutex, so each    *)
(* call is one atomic step.                                                *)
(*                                                                         *)
(* Part 2: the same functions statement by statement, with the CAB mutex   *)
(* and the threads that wait for it.                                       *)
(*                                                                         *)
(* Part 3: the task registry and the ptask_t descriptors: ptask_init,      *)
(* ptask_set_params, ptask_create, ptask_destroy, ptask_short,             *)
(* ptask_cancel and ptask_join.                                            *)
(*                                                                         *)
(* Part 4: ptask_init, ptask_destroy and ptask_join statement by           *)
(* statement, called by several threads at once.                           *)
(*                                                                         *)
(* Part 5: the period of a task: ptask_start_period,                       *)
(* ptask_wait_for_period and ptask_deadline_miss, with the time functions  *)
(* of src/src/api/time_utils.c.                                            *)
(*                                                                         *)
(* Part 6: the identifiers of the CABs: ptask_cab_init and                 *)
(* ptask_cab_destroy on the counter _next_cab_id.                          *)
(*                                                                         *)
(* Part 7: time_diff and time_add_ms on their own.                         *)
(*                                                                         *)
(* Part 8: the graphical sessions of the application (src/src/main.c):     *)
(* initialize_tasks, main_wait, join_tasks, main_terminate_tasks and the   *)
(* bodies of the tasks.                                                    *)
(***************************************************************************)
EXTENDS Integers, FiniteSets, Sequences, TLC

(* ---- program constants ---- *)
PTASK_CAB_MAX_SIZE == 32
NO_INDEX == -1
NULL == 0
EINVAL == 22
EAGAIN == 11
AUDIO_REC_NUM_BUFFERS == 3
PS_ERROR == -1
PS_FREE == 0
PS_NEW == 1
PS_JOINABLE == 2
SCHED_OTHER == 0
SCHED_FIFO == 1
SCHED_RR == 2
SCHED_DEADLINE == 6
TASK_GUI == 0
TASK_UI == 1
TASK_MIC == 2
TASK_FFT == 3
TASK_GUI_PERIOD == 30
TASK_UI_PERIOD == 30
TASK_MIC_PERIOD == 8

(* ---- bounds of the model ---- *)
MaxBuffers == 3
NumReaders == 2
MaxCommits == 3
MaxBusy == 2
MaxTime == 2
MuxReaders == 1
MaxTasks == 2
MaxThreads == 2
MaxClock == 8
MaxMiss == 2
MaxIntr == 2
MaxCabs == 4
MaxSec == 1
MaxIds == 5
MaxSessions == 3
MaxWaits == 1

VARIABLES
    num_buffers,    \* ptask_cab_t.num_buffers
    busy,           \* ptask_cab_t.busy[PTASK_CAB_MAX_SIZE]
    last_index,     \* ptask_cab_t.last_index
    data,           \* contents of the caller-owned buffers, by reference
    wtok,           \* writer: b_id obtained from ptask_cab_reserve, or NO_INDEX
    wbuf,           \* writer: buffer reference obtained with it
    wfilled,        \* writer: has written the new value into its buffer
    rtok,           \* readers: b_id obtained from ptask_cab_getmes, or NO_INDEX
    rval,           \* readers: value found in the buffer at the last fetch
    seq,            \* number of successful commits (the value last published)
    last_commit,    \* history: b_id of the last successful commit since the
                    \*   last reset, or NO_INDEX
    stale,          \* history: tokens committed since the last reset and not
                    \*   returned by ptask_cab_reserve since
    held_only,      \* history: no release and no reset has happened so far
    call,           \* the last call: operation, caller, argument and results
    timestamp,      \* ptask_cab_t.timestamp
    now,            \* the monotonic clock
    mux,            \* ptask_cab_t._mux: the thread that owns it, or UNLOCKED
    other,          \* the mutex of another CAB: its owner, or UNLOCKED
    pc,             \* threads: the statement of the CAB function each is at
    cur,            \* threads: the CAB function each is in, its b_id (the i
                    \*   of ptask_cab_reserve) and its err
    ptask,          \* the ptask_t descriptors of the application
    _used_ids,      \* static char _used_ids[PTASK_MAX]
    _ntasks,        \* static int _ntasks
    _last_task_id,  \* static int _last_task_id
    _scheduler,     \* static int _scheduler
    threads,        \* the threads started by pthread_create and not joined:
                    \*   running, cancelling (running with a cancellation
                    \*   request pending) or exited, and the descriptor each
                    \*   was given
    reinit,         \* history: ptask_init has overwritten a descriptor whose
                    \*   thread was not joined
    overwritten,    \* history: ptask_init has overwritten a descriptor that
                    \*   was not Free
    rpc,            \* callers of part 4: the statement of ptask_init,
                    \*   ptask_destroy or ptask_join each is at
    rop,            \* callers of part 4: the function each is in
    overlap,        \* history: two callers have been inside the registry
                    \*   functions at the same time
    pt,             \* the ptask_t of a periodic task: period, deadline, dmiss,
                    \*   at and dl
    ppc,            \* the periodic task: before ptask_start_period ("new"),
                    \*   in its body ("run"), in ptask_wait_for_period ("sleep")
    t0,             \* history: the clock, in ms, at ptask_start_period
    nw,             \* history: the returns of ptask_wait_for_period so far
    intr,           \* history: the interruptions of the sleep of the last
                    \*   ptask_wait_for_period
    cab_id,         \* ptask_cab_t.id
    _next_cab_id,   \* static int _next_cab_id
    given,          \* history: the ids assigned by ptask_cab_init, in order
    tcall,          \* the last call of a time function: its arguments and
                    \*   what it returned and stored
    tasks_terminate,\* main_state.tasks_terminate
    main_mutex,     \* main_state.mutex: "free", or held by "main" or a "task"
    mpc,            \* the main thread: the statement of main it is at
    mi,             \* the main thread: the task that initialize_tasks or
                    \*   join_tasks comes to next
    tasks,          \* main_state.tasks[]
    registry,       \* _used_ids, _ntasks and _last_task_id of the application
    tpc,            \* the threads of the tasks: where each is in its body
    nwait,          \* the returns of ptask_wait_for_period in each thread
    sessions,       \* the graphical sessions that have ended
    orphans         \* history: the threads whose descriptor was initialised
                    \*   again before they were joined

cabvars == <<num_buffers, busy, last_index>>
clientvars == <<data, wtok, wbuf, wfilled, rtok, rval, seq>>
histvars == <<last_commit, stale, held_only, call>>
stampvars == <<timestamp, now>>
\* Everything that the calls of part 1 leave alone.
muxvars == <<mux, other, pc, cur>>
taskvars == <<ptask, _used_ids, _ntasks, _last_task_id, _scheduler, threads,
              reinit, overwritten>>
racevars == <<rpc, rop, overlap>>
periodvars == <<pt, ppc, t0, nw, intr>>
cabidvars == <<cab_id, _next_cab_id, given>>
appvars == <<tasks_terminate, main_mutex, mpc, mi, tasks, registry, tpc, nwait,
             sessions, orphans>>
extvars == <<racevars, periodvars, cabidvars, tcall, appvars>>
noncabvars == <<stampvars, muxvars, taskvars, extvars>>
vars == <<cabvars, clientvars, histvars, noncabvars>>

Readers == 1..NumReaders
\* The threads of part 2: the writer (0) and the first MuxReaders readers.
WRITER == 0
Threads == {WRITER} \cup (1..MuxReaders)
UNLOCKED == -1
NoCall == [op |-> "none", b_id |-> NO_INDEX, err |-> 0]

\* PTASK_MAX is 50 (ptask.h:140); the model works with a registry of MaxTasks
\* identifiers.  The application owns as many descriptors as there are
\* identifiers: ptask_init on a full registry returns before it looks at the
\* descriptor it is given.
PTASK_MAX == MaxTasks
Descs == 1..PTASK_MAX
Ids == 0..(PTASK_MAX - 1)
\* Thread handles; 0 is the _tid of a descriptor that never started a thread.
Tids == 1..MaxThreads
\* static const ptask_t _ptask_new_task: all zero.
_ptask_new_task ==
    [id |-> 0, wcet |-> 0, period |-> 0, deadline |-> 0, priority |-> 0,
     _state |-> PS_FREE, _tid |-> 0]
NoThread == [st |-> "none", arg |-> 0]
\* A zeroed struct timespec.
NoTime == [tv_sec |-> 0, tv_nsec |-> 0]
\* The tasks that initialize_tasks starts, and the identifiers of the
\* registry of the application: PTASK_MAX is 50 (ptask.h:140), MaxIds here.
AppTasks == {TASK_GUI, TASK_UI, TASK_MIC, TASK_FFT}
AppIds == 0..(MaxIds - 1)
\* An entry of main_state.tasks[] as static storage and _ptask_new_task
\* leave it.
NoAppTask ==
    [id |-> 0, _state |-> PS_FREE, period |-> 0, deadline |-> 0,
     at |-> NoTime, dl |-> NoTime]
Indices == 0..(PTASK_CAB_MAX_SIZE - 1)

(* ---- the CAB structure ---- *)

\* ptask_cab->buffers[i]: the n references stored by ptask_cab_init (modelled
\* as 1..n), NULL for the entries the static _ptask_new_cab leaves zeroed.
buffers(i) == IF i < num_buffers THEN i + 1 ELSE NULL

\* ptask_cab_init(&cab, n, size, buffers) on a fresh structure.
ptask_cab_init(n) ==
    /\ num_buffers = n
    /\ busy = [i \in Indices |-> 0]
    /\ last_index = NO_INDEX

\* Mutant: a reset that also clears the busy counts, as a fresh initialisation
\* would.
ptask_cab_reset_clear ==
    [err |-> 0, busy |-> [i \in Indices |-> 0], last_index |-> NO_INDEX]

\* ptask_cab_reset
ptask_cab_reset ==
    [err |-> 0, busy |-> busy, last_index |-> NO_INDEX]

\* Mutant: a scan that skips the last published buffer only.
cab_scan_ignoring_busy(i) ==
    IF i = last_index THEN i + 1 ELSE i

\* Mutant: a scan that skips the busy buffers only.
\* Mutant: a scan that also skips every entry before the last published one.
RECURSIVE cab_scan_after_last(_)
cab_scan_after_last(i) ==
    IF i >= PTASK_CAB_MAX_SIZE THEN i
    ELSE IF busy[i] # 0 \/ i <= last_index THEN cab_scan_after_last(i + 1)
    ELSE i

RECURSIVE cab_scan_ignoring_last(_)
cab_scan_ignoring_last(i) ==
    IF i >= PTASK_CAB_MAX_SIZE THEN i
    ELSE IF busy[i] # 0 THEN cab_scan_ignoring_last(i + 1)
    ELSE i

\* The scan of ptask_cab_reserve: while (busy[i] || i == last_index) ++i;
\* The loop has no bound: it stops inside busy[] only if some entry below
\* PTASK_CAB_MAX_SIZE is free, otherwise it runs off the array.
RECURSIVE cab_scan(_)
cab_scan(i) ==
    IF i >= PTASK_CAB_MAX_SIZE THEN i
    ELSE IF busy[i] # 0 \/ i = last_index THEN cab_scan(i + 1)
    ELSE i

\* The indices at which the scan may stop.  Running off busy[] is undefined
\* behaviour: any index may come out.
cab_scan_result ==
    IF cab_scan(0) < PTASK_CAB_MAX_SIZE THEN {cab_scan(0)} ELSE Indices

\* Mutant: a reservation that does not use the index found by the scan.
ptask_cab_reserve_first(i) ==
    [err |-> 0, busy |-> [busy EXCEPT ![0] = @ + 1], last_index |-> last_index,
     b_id |-> 0, buffer |-> buffers(0)]

\* ptask_cab_reserve, for the index i at which the scan stopped
ptask_cab_reserve(i) ==
    [err |-> 0, busy |-> [busy EXCEPT ![i] = @ + 1], last_index |-> last_index,
     b_id |-> i, buffer |-> buffers(i)]

\* Mutant: a commit that frees the buffer without publishing it.
ptask_cab_putmes_no_publish(b_id) ==
    IF busy[b_id] # 1 \/ last_index = b_id
    THEN [err |-> EINVAL, busy |-> busy, last_index |-> last_index]
    ELSE [err |-> 0, busy |-> [busy EXCEPT ![b_id] = 0], last_index |-> last_index]

\* Mutant: a commit that checks the busy count only.
ptask_cab_putmes_no_last_check(b_id) ==
    IF busy[b_id] # 1
    THEN [err |-> EINVAL, busy |-> busy, last_index |-> last_index]
    ELSE [err |-> 0, busy |-> [busy EXCEPT ![b_id] = 0], last_index |-> b_id]

\* Mutant: a commit that fails only when both checks fail.
ptask_cab_putmes_and(b_id) ==
    IF busy[b_id] # 1 /\ last_index = b_id
    THEN [err |-> EINVAL, busy |-> busy, last_index |-> last_index]
    ELSE [err |-> 0, busy |-> [busy EXCEPT ![b_id] = 0], last_index |-> b_id]

\* ptask_cab_putmes
ptask_cab_putmes(b_id) ==
    IF busy[b_id] # 1 \/ last_index = b_id
    THEN [err |-> EINVAL, busy |-> busy, last_index |-> last_index]
    ELSE [err |-> 0, busy |-> [busy EXCEPT ![b_id] = 0], last_index |-> b_id]

\* Mutant: a fetch that does not count the reader.
ptask_cab_getmes_no_count ==
    IF last_index < 0
    THEN [err |-> EAGAIN, busy |-> busy, last_index |-> last_index,
          b_id |-> NO_INDEX, buffer |-> NULL]
    ELSE [err |-> 0, busy |-> busy, last_index |-> last_index,
          b_id |-> last_index, buffer |-> buffers(last_index)]

\* Mutant: a fetch that takes index 0 for "no value".
ptask_cab_getmes_le ==
    IF last_index <= 0
    THEN [err |-> EAGAIN, busy |-> busy, last_index |-> last_index,
          b_id |-> NO_INDEX, buffer |-> NULL]
    ELSE [err |-> 0, busy |-> [busy EXCEPT ![last_index] = @ + 1],
          last_index |-> last_index,
          b_id |-> last_index, buffer |-> buffers(last_index)]

\* ptask_cab_getmes
ptask_cab_getmes ==
    IF last_index < 0
    THEN [err |-> EAGAIN, busy |-> busy, last_index |-> last_index,
          b_id |-> NO_INDEX, buffer |-> NULL]
    ELSE [err |-> 0, busy |-> [busy EXCEPT ![last_index] = @ + 1],
          last_index |-> last_index,
          b_id |-> last_index, buffer |-> buffers(last_index)]

\* Mutant: a release that leaves the count of the buffer as it was.
ptask_cab_unget_keeps_count(b_id) ==
    IF busy[b_id] < 1
    THEN [err |-> EINVAL, busy |-> busy, last_index |-> last_index]
    ELSE [err |-> 0, busy |-> busy, last_index |-> last_index]

\* Mutant: a release that only rejects negative counts.
ptask_cab_unget_lt0(b_id) ==
    IF busy[b_id] < 0
    THEN [err |-> EINVAL, busy |-> busy, last_index |-> last_index]
    ELSE [err |-> 0, busy |-> [busy EXCEPT ![b_id] = @ - 1],
          last_index |-> last_index]

\* ptask_cab_unget
ptask_cab_unget(b_id) ==
    IF busy[b_id] < 1
    THEN [err |-> EINVAL, busy |-> busy, last_index |-> last_index]
    ELSE [err |-> 0, busy |-> [busy EXCEPT ![b_id] = @ - 1],
          last_index |-> last_index]

(* ---- calls ---- *)

Call(op, by, r, b_id, err, buffer) ==
    [op |-> op, by |-> by, r |-> r, b_id |-> b_id, err |-> err, buffer |-> buffer]

\* The effect of a call's result on the CAB structure.
Apply(res) ==
    /\ busy' = res.busy
    /\ last_index' = res.last_index
    /\ UNCHANGED num_buffers

\* History of commits: a successful commit of b_id becomes the last one.
Committed(res, b_id) ==
    /\ last_commit' = IF res.err = 0 THEN b_id ELSE last_commit
    /\ stale' = IF res.err = 0 THEN stale \cup {b_id} ELSE stale

\* The clients, the histories and the threads before the first call.
InitRest ==
    /\ data = [b \in 1..num_buffers |-> 0]
    /\ wtok = NO_INDEX
    /\ wbuf = NULL
    /\ wfilled = FALSE
    /\ rtok = [r \in Readers |-> NO_INDEX]
    /\ rval = [r \in Readers |-> 0]
    /\ seq = 0
    /\ last_commit = NO_INDEX
    /\ stale = {}
    /\ held_only = TRUE
    /\ call = Call("init", "main", 0, NO_INDEX, 0, NULL)
    /\ timestamp = 0
    /\ now = 0
    /\ mux = UNLOCKED
    /\ other = UNLOCKED
    /\ pc = [t \in Threads |-> "idle"]
    /\ cur = [t \in Threads |-> NoCall]
    /\ ptask = [d \in Descs |-> _ptask_new_task]
    /\ _used_ids = [i \in Ids |-> FALSE]
    /\ _ntasks = 0
    /\ _last_task_id = -1
    /\ _scheduler = SCHED_OTHER
    /\ threads = [k \in Tids |-> NoThread]
    /\ reinit = FALSE
    /\ overwritten = FALSE
    /\ rpc = [d \in Descs |-> "idle"]
    /\ rop = [d \in Descs |-> "none"]
    /\ overlap = FALSE
    /\ pt = [period |-> 0, deadline |-> 0, dmiss |-> 0, at |-> NoTime, dl |-> NoTime]
    /\ ppc = "new"
    /\ t0 = 0
    /\ nw = 0
    /\ intr = 0
    /\ cab_id = 1
    /\ _next_cab_id = 2
    /\ given = <<1>>
    /\ tcall = [op |-> "none", t1 |-> NoTime, t2 |-> NoTime, ms |-> 0, ret |-> 0,
                tdest0 |-> NoTime, tdest |-> NoTime]
    /\ tasks_terminate = FALSE
    /\ main_mutex = "free"
    /\ mpc = "terminal_mode"
    /\ mi = 1
    /\ tasks = [t \in AppTasks |-> NoAppTask]
    /\ registry = [used |-> [i \in AppIds |-> FALSE], ntasks |-> 0, last |-> -1]
    /\ tpc = [t \in AppTasks |-> "none"]
    /\ nwait = [t \in AppTasks |-> 0]
    /\ sessions = 0
    /\ orphans = 0

Init ==
    /\ \E n \in 2..MaxBuffers : ptask_cab_init(n)
    /\ InitRest

(* ---- the writer task (audio.c, microphone task: reserve, fill, putmes; ---- *)
(* ---- unget of the half-filled buffer at the end)                      ---- *)

WriterReserve ==
    /\ wtok = NO_INDEX
    /\ \E i \in cab_scan_result :
         LET res == ptask_cab_reserve(i) IN
           /\ Apply(res)
           /\ wtok' = res.b_id
           /\ wbuf' = res.buffer
           /\ wfilled' = FALSE
           /\ stale' = stale \ {res.b_id}
           /\ call' = Call("reserve", "writer", 0, res.b_id, res.err, res.buffer)
    /\ UNCHANGED <<data, rtok, rval, seq, last_commit, held_only>>
    /\ UNCHANGED noncabvars

\* The writer writes the next value through the reference it obtained.  A NULL
\* reference (a token past the last buffer) cannot be written.
WriterFill ==
    /\ wtok # NO_INDEX
    /\ wbuf # NULL
    /\ ~wfilled
    /\ seq < MaxCommits
    /\ data' = [data EXCEPT ![wbuf] = seq + 1]
    /\ wfilled' = TRUE
    /\ call' = Call("fill", "writer", 0, wtok, 0, wbuf)
    /\ UNCHANGED <<cabvars, wtok, wbuf, rtok, rval, seq, last_commit, stale, held_only>>
    /\ UNCHANGED noncabvars

\* The return value of ptask_cab_putmes is ignored by the writer (audio.c:1814):
\* it gives the token up either way.
WriterCommit ==
    /\ wtok # NO_INDEX
    /\ wfilled \/ wbuf = NULL
    /\ seq < MaxCommits
    /\ LET res == ptask_cab_putmes(wtok) IN
         /\ Apply(res)
         /\ Committed(res, wtok)
         /\ seq' = IF res.err = 0 THEN seq + 1 ELSE seq
         /\ call' = Call("putmes", "writer", 0, wtok, res.err, NULL)
    /\ wtok' = NO_INDEX
    /\ wbuf' = NULL
    /\ wfilled' = FALSE
    /\ UNCHANGED <<data, rtok, rval, held_only>>
    /\ UNCHANGED noncabvars

\* The writer abandons its reservation (audio.c:1848).
WriterUnget ==
    /\ wtok # NO_INDEX
    /\ LET res == ptask_cab_unget(wtok) IN
         /\ Apply(res)
         /\ call' = Call("unget", "writer", 0, wtok, res.err, NULL)
    /\ wtok' = NO_INDEX
    /\ wbuf' = NULL
    /\ wfilled' = FALSE
    /\ held_only' = FALSE
    /\ UNCHANGED <<data, rtok, rval, seq, last_commit, stale>>
    /\ UNCHANGED noncabvars

(* ---- the reader tasks (audio_get_last_record / audio_free_last_record) ---- *)

ReaderGet(r) ==
    /\ rtok[r] = NO_INDEX
    /\ LET res == ptask_cab_getmes IN
         /\ Apply(res)
         /\ rtok' = [rtok EXCEPT ![r] = IF res.err = 0 THEN res.b_id ELSE @]
         /\ rval' = [rval EXCEPT ![r] =
                       IF res.err = 0 /\ res.buffer # NULL THEN data[res.buffer]
                       ELSE @]
         /\ call' = Call("getmes", "reader", r, res.b_id, res.err, res.buffer)
    /\ UNCHANGED <<data, wtok, wbuf, wfilled, seq, last_commit, stale, held_only>>
    /\ UNCHANGED noncabvars

ReaderUnget(r) ==
    /\ rtok[r] # NO_INDEX
    /\ LET res == ptask_cab_unget(rtok[r]) IN
         /\ Apply(res)
         /\ call' = Call("unget", "reader", r, rtok[r], res.err, NULL)
    /\ rtok' = [rtok EXCEPT ![r] = NO_INDEX]
    /\ rval' = [rval EXCEPT ![r] = 0]
    /\ held_only' = FALSE
    /\ UNCHANGED <<data, wtok, wbuf, wfilled, seq, last_commit, stale>>
    /\ UNCHANGED noncabvars

(* ---- reset of the stream (audio.c:1853) ---- *)

Reset ==
    /\ LET res == ptask_cab_reset IN
         /\ Apply(res)
         /\ call' = Call("reset", "writer", 0, NO_INDEX, res.err, NULL)
    /\ last_commit' = NO_INDEX
    /\ stale' = {}
    /\ held_only' = FALSE
    /\ UNCHANGED <<clientvars>>
    /\ UNCHANGED noncabvars

(* ---- any caller: the five functions called in any order, with any ---- *)
(* ---- token, whether or not the caller obtained it                  ---- *)

Tokens == 0..num_buffers

\* The reservations outstanding are bounded: the scan stops at most one entry
\* past the last buffer.
AnyReserve ==
    /\ cab_scan(0) <= num_buffers
    /\ \E i \in cab_scan_result :
         LET res == ptask_cab_reserve(i) IN
           /\ Apply(res)
           /\ stale' = stale \ {res.b_id}
           /\ call' = Call("reserve", "any", 0, res.b_id, res.err, res.buffer)
    /\ UNCHANGED <<clientvars, last_commit, held_only>>
    /\ UNCHANGED noncabvars

AnyPutmes(b_id) ==
    /\ LET res == ptask_cab_putmes(b_id) IN
         /\ Apply(res)
         /\ Committed(res, b_id)
         /\ call' = Call("putmes", "any", 0, b_id, res.err, NULL)
    /\ UNCHANGED <<clientvars, held_only>>
    /\ UNCHANGED noncabvars

AnyGetmes ==
    /\ last_index >= 0 => busy[last_index] < MaxBusy
    /\ LET res == ptask_cab_getmes IN
         /\ Apply(res)
         /\ call' = Call("getmes", "any", 0, res.b_id, res.err, res.buffer)
    /\ UNCHANGED <<clientvars, last_commit, stale, held_only>>
    /\ UNCHANGED noncabvars

AnyUnget(b_id) ==
    /\ LET res == ptask_cab_unget(b_id) IN
         /\ Apply(res)
         /\ call' = Call("unget", "any", 0, b_id, res.err, NULL)
    /\ UNCHANGED <<clientvars, last_commit, stale, held_only>>
    /\ UNCHANGED noncabvars

AnyReset ==
    /\ LET res == ptask_cab_reset IN
         /\ Apply(res)
         /\ call' = Call("reset", "any", 0, NO_INDEX, res.err, NULL)
    /\ last_commit' = NO_INDEX
    /\ stale' = {}
    /\ UNCHANGED <<clientvars, held_only>>
    /\ UNCHANGED noncabvars

(* ---- specifications ---- *)

\* Clients that follow the protocol.
Next ==
    \/ WriterReserve
    \/ WriterFill
    \/ WriterCommit
    \/ WriterUnget
    \/ \E r \in Readers : ReaderGet(r)
    \/ \E r \in Readers : ReaderUnget(r)
    \/ Reset

Spec == Init /\ [][Next]_vars

\* Every sequence of calls.
NextAny ==
    \/ AnyReserve
    \/ \E b \in Tokens : AnyPutmes(b)
    \/ AnyGetmes
    \/ \E b \in Tokens : AnyUnget(b)
    \/ AnyReset

\* Calls in any order are explored on a CAB of 2 buffers, with tokens 0..2:
\* each function reads and writes busy[b_id] and last_index only.
InitAny == Init /\ num_buffers = 2

SpecAny == InitAny /\ [][NextAny]_vars

(* ---- the CAB and the clock ---- *)

\* CLOCK_MONOTONIC advances between the calls.
Tick ==
    /\ now < MaxTime
    /\ now' = now + 1
    /\ UNCHANGED <<cabvars, clientvars, histvars, timestamp, muxvars, taskvars,
                   extvars>>

\* No function of ptask.c assigns ptask_cab_t.timestamp: the calls leave it as
\* _ptask_new_cab zeroed it.
NextStamp ==
    \/ NextAny
    \/ Tick

SpecStamp == InitAny /\ [][NextStamp]_vars

(***************************************************************************)
(* Part 2: the CAB functions statement by statement.  Each function locks  *)
(* the CAB mutex, runs its statements, unlocks and returns; the threads    *)
(* interleave between the statements.                                      *)
(***************************************************************************)

\* The functions a thread may call next: the writer reserves, then commits or
\* abandons, and resets when it holds nothing; a reader fetches, then releases.
CabCalls(t) ==
    IF t = WRITER
    THEN IF wtok = NO_INDEX
         THEN {[op |-> "reserve", b_id |-> 0, err |-> 0],
               [op |-> "reset", b_id |-> NO_INDEX, err |-> 0]}
         ELSE {[op |-> "putmes", b_id |-> wtok, err |-> 0],
               [op |-> "unget", b_id |-> wtok, err |-> 0]}
    ELSE IF rtok[t] = NO_INDEX
         THEN {[op |-> "getmes", b_id |-> NO_INDEX, err |-> 0]}
         ELSE {[op |-> "unget", b_id |-> rtok[t], err |-> 0]}

\* Mutant: ptask_cab_reset without the lock.
first_statement_unlocked(op) == IF op = "reset" THEN "body" ELSE "lock"

\* The first statement of every CAB function is ptask_mutex_lock.
first_statement(op) == "lock"

\* The statement that follows the lock: the scan of ptask_cab_reserve, the
\* if or the assignment of the others.
after_lock(op) == IF op = "reserve" THEN "scan" ELSE "body"

\* The statements that read or write busy[] or last_index.
accesses(label) == label \in {"scan", "body"}

\* Mutant: an unlock that leaves the mutex with its owner.
ptask_mutex_unlock_kept(t) == t

\* ptask_mutex_unlock
ptask_mutex_unlock(t) == UNLOCKED

\* A thread that is in no CAB function and holds no other lock calls one.
MuxCall(t) ==
    /\ pc[t] = "idle"
    /\ other # t
    /\ \E c \in CabCalls(t) :
         /\ cur' = [cur EXCEPT ![t] = c]
         /\ pc' = [pc EXCEPT ![t] = first_statement(c.op)]
    /\ UNCHANGED <<cabvars, clientvars, histvars, stampvars, taskvars, extvars, mux, other>>

\* ptask_mutex_lock: the thread is suspended until the mutex is free.
MuxLock(t) ==
    /\ pc[t] = "lock"
    /\ mux = UNLOCKED
    /\ mux' = t
    /\ pc' = [pc EXCEPT ![t] = after_lock(cur[t].op)]
    /\ UNCHANGED <<cabvars, clientvars, histvars, stampvars, taskvars, extvars, other, cur>>

\* One evaluation of the condition of the while of ptask_cab_reserve.  Past
\* the end of busy[] the read is undefined: the scan stops anywhere.
MuxScan(t) ==
    /\ pc[t] = "scan"
    /\ LET i == cur[t].b_id IN
         IF busy[i] # 0 \/ i = last_index
         THEN IF i + 1 < PTASK_CAB_MAX_SIZE
              THEN /\ cur' = [cur EXCEPT ![t].b_id = i + 1]
                   /\ pc' = pc
              ELSE /\ \E j \in Indices : cur' = [cur EXCEPT ![t].b_id = j]
                   /\ pc' = [pc EXCEPT ![t] = "body"]
         ELSE /\ cur' = cur
              /\ pc' = [pc EXCEPT ![t] = "body"]
    /\ UNCHANGED <<cabvars, clientvars, histvars, stampvars, taskvars, extvars, mux, other>>

\* The statements between the lock and the unlock.
MuxBody(t) ==
    /\ pc[t] = "body"
    /\ LET c == cur[t]
           res == CASE c.op = "reserve" -> ptask_cab_reserve(c.b_id)
                    [] c.op = "putmes" -> ptask_cab_putmes(c.b_id)
                    [] c.op = "getmes" -> ptask_cab_getmes
                    [] c.op = "unget" -> ptask_cab_unget(c.b_id)
                    [] c.op = "reset" -> ptask_cab_reset
       IN /\ Apply(res)
          /\ cur' = [cur EXCEPT ![t].err = res.err,
                                ![t].b_id = IF c.op = "getmes" THEN res.b_id ELSE @]
    /\ pc' = [pc EXCEPT ![t] = "unlock"]
    /\ UNCHANGED <<clientvars, histvars, stampvars, taskvars, extvars, mux, other>>

MuxUnlock(t) ==
    /\ pc[t] = "unlock"
    /\ mux' = ptask_mutex_unlock(t)
    /\ pc' = [pc EXCEPT ![t] = "out"]
    /\ UNCHANGED <<cabvars, clientvars, histvars, stampvars, taskvars, extvars, other, cur>>

\* The statements after the unlock (*buffer and *b_id are assigned) and the
\* return; the caller keeps or gives up its token.
MuxReturn(t) ==
    /\ pc[t] = "out"
    /\ LET c == cur[t] IN
         /\ wtok' = IF t # WRITER THEN wtok
                    ELSE IF c.op = "reserve" THEN c.b_id
                    ELSE IF c.op = "reset" THEN wtok
                    ELSE NO_INDEX
         /\ wbuf' = IF t # WRITER THEN wbuf
                    ELSE IF c.op = "reserve" THEN buffers(c.b_id)
                    ELSE IF c.op = "reset" THEN wbuf
                    ELSE NULL
         /\ rtok' = IF t = WRITER THEN rtok
                    ELSE IF c.op = "getmes"
                         THEN [rtok EXCEPT ![t] = IF c.err = 0 THEN c.b_id ELSE @]
                    ELSE [rtok EXCEPT ![t] = NO_INDEX]
    /\ pc' = [pc EXCEPT ![t] = "idle"]
    /\ cur' = [cur EXCEPT ![t] = NoCall]
    /\ UNCHANGED <<cabvars, data, wfilled, rval, seq, histvars, stampvars, taskvars, extvars, mux, other>>

\* Between two calls on this CAB the writer calls the functions of another CAB
\* (audio.c:474-507, do_fft inside the microphone loop), which lock and unlock
\* the mutex of that CAB.
OtherLock ==
    /\ pc[WRITER] = "idle"
    /\ other = UNLOCKED
    /\ other' = WRITER
    /\ UNCHANGED <<cabvars, clientvars, histvars, stampvars, taskvars, extvars, mux, pc, cur>>

OtherUnlock ==
    /\ other = WRITER
    /\ other' = UNLOCKED
    /\ UNCHANGED <<cabvars, clientvars, histvars, stampvars, taskvars, extvars, mux, pc, cur>>

NextMux ==
    \/ \E t \in Threads : MuxCall(t)
    \/ \E t \in Threads : MuxLock(t)
    \/ \E t \in Threads : MuxScan(t)
    \/ \E t \in Threads : MuxBody(t)
    \/ \E t \in Threads : MuxUnlock(t)
    \/ \E t \in Threads : MuxReturn(t)
    \/ OtherLock
    \/ OtherUnlock

\* The CAB has two buffers more than it has readers.
InitMux == ptask_cab_init(MuxReaders + 2) /\ InitRest

SpecMux == InitMux /\ [][NextMux]_vars

\* A thread that can run its next statement eventually runs it, and a thread
\* suspended in ptask_mutex_lock gets the mutex if it is free again and again.
\* Nothing makes a thread start a call, or release what it holds.
\* The statements of a thread that owns the mutex or has released it.
MuxRun(t) == MuxScan(t) \/ MuxBody(t) \/ MuxUnlock(t) \/ MuxReturn(t)

FairMux ==
    \A t \in Threads : SF_vars(MuxLock(t)) /\ WF_vars(MuxRun(t))

SpecMuxFair == SpecMux /\ FairMux

(***************************************************************************)
(* Part 3: the task registry and the ptask_t descriptors.  The functions   *)
(* on ptask_t are called by one designated thread (ptask.h:12-20), so each *)
(* call is one atomic step; the threads they start run beside it.          *)
(***************************************************************************)

\* The registry, the descriptors and the threads, as one value that the
\* functions below take and give back.
Reg ==
    [t |-> ptask, used |-> _used_ids, ntasks |-> _ntasks, last |-> _last_task_id,
     threads |-> threads]

\* The arguments of ptask_set_params.
Params == {[wcet |-> 1, period |-> 2, deadline |-> 2]}
Priorities == {0, 1}
Schedulers == {SCHED_OTHER, SCHED_FIFO, SCHED_RR, SCHED_DEADLINE}

_ptask_isvalid_id(S, d) ==
    /\ S.t[d].id >= 0
    /\ S.t[d].id < PTASK_MAX
    /\ S.used[S.t[d].id]

\* Mutant: one allocation too many is let through.
_ptask_canallocate_le(S) == S.ntasks <= PTASK_MAX

_ptask_canallocate(S) == S.ntasks < PTASK_MAX

\* Mutant: the next identifier is taken whether or not it is in use.
_ptask_new_id_noskip(S) ==
    LET id == (S.last + 1) % PTASK_MAX
    IN [id |-> id,
        S |-> [S EXCEPT !.last = id, !.ntasks = @ + 1, !.used[id] = TRUE]]

\* Mutant: the lowest identifier that is not in use is taken.
_ptask_new_id_lowest(S) ==
    LET free == {i \in Ids : ~S.used[i]}
    IN IF ~_ptask_canallocate(S) \/ free = {}
       THEN [id |-> -1, S |-> S]
       ELSE LET id == CHOOSE i \in free : \A j \in free : i <= j
            IN [id |-> id,
                S |-> [S EXCEPT !.last = id, !.ntasks = @ + 1, !.used[id] = TRUE]]

\* _ptask_new_id: the do-while advances _last_task_id, modulo PTASK_MAX, to the
\* next identifier that is not in use.  (With every identifier in use and
\* _ntasks below PTASK_MAX the loop would not end; _ntasks counts the
\* identifiers in use, so that does not happen.)
_ptask_new_id(S) ==
    LET steps == {k \in 1..PTASK_MAX : ~S.used[(S.last + k) % PTASK_MAX]}
    IN IF ~_ptask_canallocate(S) \/ steps = {}
       THEN [id |-> -1, S |-> S]
       ELSE LET k == CHOOSE k \in steps : \A j \in steps : k <= j
                id == (S.last + k) % PTASK_MAX
            IN [id |-> id,
                S |-> [S EXCEPT !.last = id, !.ntasks = @ + 1, !.used[id] = TRUE]]

\* Mutant: the count goes down and the identifier stays marked as used.
_ptask_free_id_keeps_used(S, d) ==
    IF _ptask_isvalid_id(S, d)
    THEN [S EXCEPT !.ntasks = @ - 1]
    ELSE S

_ptask_free_id(S, d) ==
    IF _ptask_isvalid_id(S, d)
    THEN [S EXCEPT !.ntasks = @ - 1, !.used[S.t[d].id] = FALSE]
    ELSE S

_ptask_check_state(S, d, st) == S.t[d]._state = st

\* Mutant: a descriptor that failed to start passes for a new one.
_ptask_isnew_or_error(S, d) ==
    _ptask_isvalid_id(S, d) /\ S.t[d]._state \in {PS_NEW, PS_ERROR}

_ptask_isnew(S, d) == _ptask_isvalid_id(S, d) /\ _ptask_check_state(S, d, PS_NEW)

\* Mutant: every descriptor that is not Free passes for a joinable one
\* (_ptask_isvalid).
_ptask_isjoinable_any(S, d) ==
    _ptask_isvalid_id(S, d) /\ ~_ptask_check_state(S, d, PS_FREE)

_ptask_isjoinable(S, d) ==
    _ptask_isvalid_id(S, d) /\ _ptask_check_state(S, d, PS_JOINABLE)

_ptask_iserror(S, d) ==
    _ptask_isvalid_id(S, d) /\ _ptask_check_state(S, d, PS_ERROR)

\* Mutant: only the real-time policies have their priority checked.
_ptask_attr_init_rt(S, d) ==
    IF _scheduler # SCHED_OTHER /\ S.t[d].priority = 0 THEN EINVAL ELSE 0

\* _ptask_attr_init: the priority is checked against _scheduler; the
\* pthread_attr_* calls that follow succeed.
_ptask_attr_init(S, d) ==
    IF _scheduler # SCHED_OTHER /\ S.t[d].priority = 0 THEN EINVAL
    ELSE IF _scheduler = SCHED_OTHER /\ S.t[d].priority # 0 THEN EINVAL
    ELSE 0

\* Mutant: every policy is stored.
ptask_set_scheduler_any(scheduler) == [err |-> 0, scheduler |-> scheduler]

ptask_set_scheduler(scheduler) ==
    IF scheduler \in {SCHED_OTHER, SCHED_RR, SCHED_FIFO}
    THEN [err |-> 0, scheduler |-> scheduler]
    ELSE [err |-> EINVAL, scheduler |-> _scheduler]

ptask_init(S, d) ==
    IF ~_ptask_canallocate(S) THEN [err |-> EAGAIN, S |-> S]
    ELSE LET n == _ptask_new_id(S)
         IN [err |-> 0,
             S |-> [n.S EXCEPT !.t[d] = [_ptask_new_task EXCEPT
                                           !.id = n.id, !._state = PS_NEW]]]

ptask_set_params(S, d, wcet, period, deadline, priority) ==
    IF ~_ptask_isnew(S, d) THEN [err |-> EINVAL, S |-> S]
    ELSE [err |-> 0,
          S |-> [S EXCEPT !.t[d].wcet = wcet, !.t[d].period = period,
                          !.t[d].deadline = deadline, !.t[d].priority = priority]]

\* pthread_create: with ok and a free thread handle the thread starts, with the
\* descriptor as its argument; otherwise the call fails with EAGAIN.
pthread_create(S, d, ok) ==
    LET free == {k \in Tids : S.threads[k].st = "none"}
    IN IF ok /\ free # {}
       THEN LET k == CHOOSE k \in free : \A j \in free : k <= j
            IN [err |-> 0,
                S |-> [S EXCEPT !.threads[k] = [st |-> "running", arg |-> d],
                                !.t[d]._tid = k]]
       ELSE [err |-> EAGAIN, S |-> S]

\* Mutant: a failed start leaves the descriptor in New.
ptask_create_keeps_new(S, d, ok) ==
    IF ~_ptask_isnew(S, d) THEN [err |-> EINVAL, S |-> S]
    ELSE IF _ptask_attr_init(S, d) # 0
    THEN [err |-> _ptask_attr_init(S, d), S |-> S]
    ELSE LET c == pthread_create(S, d, ok)
         IN [err |-> c.err,
             S |-> [c.S EXCEPT !.t[d]._state =
                                 IF c.err # 0 THEN PS_NEW ELSE PS_JOINABLE]]

ptask_create(S, d, ok) ==
    IF ~_ptask_isnew(S, d) THEN [err |-> EINVAL, S |-> S]
    ELSE IF _ptask_attr_init(S, d) # 0
    THEN [err |-> _ptask_attr_init(S, d), S |-> [S EXCEPT !.t[d]._state = PS_ERROR]]
    ELSE LET c == pthread_create(S, d, ok)
         IN [err |-> c.err,
             S |-> [c.S EXCEPT !.t[d]._state =
                                 IF c.err # 0 THEN PS_ERROR ELSE PS_JOINABLE]]

\* Mutant: the descriptor is reset and its identifier is not released.
ptask_destroy_keeps_id(S, d) ==
    IF ~_ptask_iserror(S, d) THEN [err |-> EINVAL, S |-> S]
    ELSE [err |-> 0, S |-> [S EXCEPT !.t[d] = _ptask_new_task]]

ptask_destroy(S, d) ==
    IF ~_ptask_iserror(S, d) THEN [err |-> EINVAL, S |-> S]
    ELSE [err |-> 0, S |-> [_ptask_free_id(S, d) EXCEPT !.t[d] = _ptask_new_task]]

\* Mutant: a failed create is not followed by destroy.
ptask_short_no_destroy(S, d, wcet, period, deadline, priority, ok) ==
    LET i == ptask_init(S, d)
        p == ptask_set_params(i.S, d, wcet, period, deadline, priority)
        c == ptask_create(p.S, d, ok)
    IN IF i.err # 0 THEN i ELSE c

\* ptask_short: init, set_params (its result is not looked at), create, and
\* destroy if create failed.
ptask_short(S, d, wcet, period, deadline, priority, ok) ==
    LET i == ptask_init(S, d)
        p == ptask_set_params(i.S, d, wcet, period, deadline, priority)
        c == ptask_create(p.S, d, ok)
    IN IF i.err # 0 THEN i
       ELSE IF c.err # 0 THEN [err |-> c.err, S |-> ptask_destroy(c.S, d).S]
       ELSE c

\* pthread_cancel leaves a request with a running thread and returns; a
\* handle that names no thread gets none.
pthread_cancel(S, k) ==
    IF k \in Tids /\ S.threads[k].st = "running"
    THEN [S EXCEPT !.threads[k].st = "cancelling"]
    ELSE S

\* Mutant: a cancel that waits for the thread and frees the identifier.
ptask_cancel_and_join(S, d) ==
    IF ~_ptask_isjoinable(S, d) THEN [err |-> EINVAL, S |-> S]
    ELSE LET j == [S EXCEPT !.threads[S.t[d]._tid] = NoThread]
         IN [err |-> 0, S |-> [_ptask_free_id(j, d) EXCEPT !.t[d]._state = PS_FREE]]

ptask_cancel(S, d) ==
    IF ~_ptask_isjoinable(S, d) THEN [err |-> EINVAL, S |-> S]
    ELSE [err |-> 0, S |-> pthread_cancel(S, S.t[d]._tid)]

\* Mutant: pthread_join returns while the thread is still running.
pthread_join_returns_at_once(S, d) == TRUE

\* pthread_join returns once the thread of the descriptor has terminated.
pthread_join_returns(S, d) == S.threads[S.t[d]._tid].st = "exited"

\* Mutant: a join that frees the identifier without joining the thread.
ptask_join_no_wait(S, d) ==
    IF ~_ptask_isjoinable(S, d) THEN [err |-> EINVAL, S |-> S]
    ELSE [err |-> 0, S |-> [_ptask_free_id(S, d) EXCEPT !.t[d]._state = PS_FREE]]

\* ptask_join: pthread_join returns when the thread has exited, and the thread
\* is gone; the identifier is freed, the id field stays as it was.
ptask_join(S, d) ==
    IF ~_ptask_isjoinable(S, d) THEN [err |-> EINVAL, S |-> S]
    ELSE LET j == [S EXCEPT !.threads[S.t[d]._tid] = NoThread]
         IN [err |-> 0, S |-> [_ptask_free_id(j, d) EXCEPT !.t[d]._state = PS_FREE]]

\* The thread started for descriptor d has not been joined.
Unjoined(d) ==
    /\ ptask[d]._state = PS_JOINABLE
    /\ ptask[d]._tid \in Tids
    /\ threads[ptask[d]._tid].st # "none"

\* What a call leaves behind.
SetReg(res) ==
    /\ ptask' = res.S.t
    /\ _used_ids' = res.S.used
    /\ _ntasks' = res.S.ntasks
    /\ _last_task_id' = res.S.last
    /\ threads' = res.S.threads

\* Everything that the calls of part 3 leave alone.
nontaskvars == <<cabvars, clientvars, histvars, stampvars, muxvars, extvars>>

\* ptask_set_scheduler is called before any task is initialised (ptask.c:171).
TaskSetScheduler(scheduler) ==
    /\ _last_task_id = -1
    /\ _scheduler' = ptask_set_scheduler(scheduler).scheduler
    /\ UNCHANGED <<ptask, _used_ids, _ntasks, _last_task_id, threads, reinit,
                   overwritten>>
    /\ UNCHANGED nontaskvars

TaskInit(d) ==
    /\ LET res == ptask_init(Reg, d) IN
         /\ SetReg(res)
         /\ reinit' = (reinit \/ (res.err = 0 /\ Unjoined(d)))
         /\ overwritten' = (overwritten
                            \/ (res.err = 0 /\ ptask[d]._state # PS_FREE))
    /\ UNCHANGED _scheduler
    /\ UNCHANGED nontaskvars

TaskSetParams(d) ==
    /\ \E par \in Params, priority \in Priorities :
         SetReg(ptask_set_params(Reg, d, par.wcet, par.period, par.deadline, priority))
    /\ UNCHANGED <<_scheduler, reinit, overwritten>>
    /\ UNCHANGED nontaskvars

TaskCreate(d) ==
    /\ \E ok \in BOOLEAN : SetReg(ptask_create(Reg, d, ok))
    /\ UNCHANGED <<_scheduler, reinit, overwritten>>
    /\ UNCHANGED nontaskvars

TaskDestroy(d) ==
    /\ SetReg(ptask_destroy(Reg, d))
    /\ UNCHANGED <<_scheduler, reinit, overwritten>>
    /\ UNCHANGED nontaskvars

TaskShort(d) ==
    /\ \E par \in Params, priority \in Priorities, ok \in BOOLEAN :
         LET res == ptask_short(Reg, d, par.wcet, par.period, par.deadline,
                                priority, ok) IN
           /\ SetReg(res)
           /\ reinit' = (reinit \/ (_ptask_canallocate(Reg) /\ Unjoined(d)))
           /\ overwritten' = (overwritten
                              \/ (_ptask_canallocate(Reg)
                                  /\ ptask[d]._state # PS_FREE))
    /\ UNCHANGED _scheduler
    /\ UNCHANGED nontaskvars

TaskCancel(d) ==
    /\ SetReg(ptask_cancel(Reg, d))
    /\ UNCHANGED <<_scheduler, reinit, overwritten>>
    /\ UNCHANGED nontaskvars

\* ptask_join returns at once with EINVAL, or when the thread has exited.
TaskJoin(d) ==
    /\ _ptask_isjoinable(Reg, d) => pthread_join_returns(Reg, d)
    /\ SetReg(ptask_join(Reg, d))
    /\ UNCHANGED <<_scheduler, reinit, overwritten>>
    /\ UNCHANGED nontaskvars

\* The body of a task returns, or the thread acts on a cancellation request.
ThreadExit(k) ==
    /\ threads[k].st \in {"running", "cancelling"}
    /\ threads' = [threads EXCEPT ![k].st = "exited"]
    /\ UNCHANGED <<ptask, _used_ids, _ntasks, _last_task_id, _scheduler, reinit,
                   overwritten>>
    /\ UNCHANGED nontaskvars

NextTask ==
    \/ \E sch \in Schedulers : TaskSetScheduler(sch)
    \/ \E d \in Descs : TaskInit(d)
    \/ \E d \in Descs : TaskSetParams(d)
    \/ \E d \in Descs : TaskCreate(d)
    \/ \E d \in Descs : TaskDestroy(d)
    \/ \E d \in Descs : TaskShort(d)
    \/ \E d \in Descs : TaskCancel(d)
    \/ \E d \in Descs : TaskJoin(d)
    \/ \E k \in Tids : ThreadExit(k)

SpecTask == InitAny /\ [][NextTask]_vars

(***************************************************************************)
(* Part 4: ptask_init, ptask_destroy and ptask_join called by several      *)
(* threads at once, each on a descriptor of its own.  The registry is      *)
(* plain static data and ptask.c takes no lock around it, so the           *)
(* statements of _ptask_new_id and _ptask_free_id interleave.              *)
(***************************************************************************)

RaceOps == {"init", "destroy", "join"}

\* Everything that the statements of part 4 leave alone.
nonracevars == <<cabvars, clientvars, histvars, stampvars, muxvars, _scheduler,
                 reinit, overwritten, periodvars, cabidvars, tcall, appvars>>

\* Mutant: the do-while of _ptask_new_id stops at the first identifier.
new_id_again_never(S) == FALSE

\* The condition of the do-while of _ptask_new_id.
new_id_again(S) == S.used[S.last]

\* A thread calls one of the functions on its descriptor.
RaceCall(d, op) ==
    /\ rpc[d] = "idle"
    /\ rpc' = [rpc EXCEPT ![d] = IF op = "init" THEN "i_check" ELSE "f_check"]
    /\ rop' = [rop EXCEPT ![d] = op]
    /\ overlap' = (overlap \/ \E e \in Descs : e # d /\ rpc[e] # "idle")
    /\ UNCHANGED <<ptask, _used_ids, _ntasks, _last_task_id, threads>>
    /\ UNCHANGED nonracevars

\* ptask_init: the test of _ptask_canallocate and the copy of _ptask_new_task.
RaceInitCheck(d) ==
    /\ rpc[d] = "i_check"
    /\ IF _ptask_canallocate(Reg)
       THEN /\ ptask' = [ptask EXCEPT ![d] = _ptask_new_task]
            /\ rpc' = [rpc EXCEPT ![d] = "n_check"]
       ELSE /\ rpc' = [rpc EXCEPT ![d] = "idle"]
            /\ UNCHANGED ptask
    /\ UNCHANGED <<_used_ids, _ntasks, _last_task_id, threads, rop, overlap>>
    /\ UNCHANGED nonracevars

\* _ptask_new_id: the test of _ptask_canallocate; -1 is what ptask_init stores
\* as the id when it fails.
RaceNewIdCheck(d) ==
    /\ rpc[d] = "n_check"
    /\ IF _ptask_canallocate(Reg)
       THEN /\ rpc' = [rpc EXCEPT ![d] = "n_next"]
            /\ UNCHANGED ptask
       ELSE /\ ptask' = [ptask EXCEPT ![d].id = -1, ![d]._state = PS_NEW]
            /\ rpc' = [rpc EXCEPT ![d] = "idle"]
    /\ UNCHANGED <<_used_ids, _ntasks, _last_task_id, threads, rop, overlap>>
    /\ UNCHANGED nonracevars

\* _last_task_id = (_last_task_id+1) % PTASK_MAX;
RaceNewIdNext(d) ==
    /\ rpc[d] = "n_next"
    /\ _last_task_id' = (_last_task_id + 1) % PTASK_MAX
    /\ rpc' = [rpc EXCEPT ![d] = "n_test"]
    /\ UNCHANGED <<ptask, _used_ids, _ntasks, threads, rop, overlap>>
    /\ UNCHANGED nonracevars

\* while (_used_ids[_last_task_id]);
RaceNewIdTest(d) ==
    /\ rpc[d] = "n_test"
    /\ rpc' = [rpc EXCEPT ![d] = IF new_id_again(Reg) THEN "n_next" ELSE "n_count"]
    /\ UNCHANGED <<ptask, _used_ids, _ntasks, _last_task_id, threads, rop, overlap>>
    /\ UNCHANGED nonracevars

\* ++_ntasks;
RaceNewIdCount(d) ==
    /\ rpc[d] = "n_count"
    /\ _ntasks' = _ntasks + 1
    /\ rpc' = [rpc EXCEPT ![d] = "n_mark"]
    /\ UNCHANGED <<ptask, _used_ids, _last_task_id, threads, rop, overlap>>
    /\ UNCHANGED nonracevars

\* _used_ids[_last_task_id] = true;
RaceNewIdMark(d) ==
    /\ rpc[d] = "n_mark"
    /\ _used_ids' = [_used_ids EXCEPT ![_last_task_id] = TRUE]
    /\ rpc' = [rpc EXCEPT ![d] = "n_ret"]
    /\ UNCHANGED <<ptask, _ntasks, _last_task_id, threads, rop, overlap>>
    /\ UNCHANGED nonracevars

\* return _last_task_id; and ptask_init stores it and sets PS_NEW.
RaceNewIdReturn(d) ==
    /\ rpc[d] = "n_ret"
    /\ ptask' = [ptask EXCEPT ![d].id = _last_task_id, ![d]._state = PS_NEW]
    /\ rpc' = [rpc EXCEPT ![d] = "idle"]
    /\ UNCHANGED <<_used_ids, _ntasks, _last_task_id, threads, rop, overlap>>
    /\ UNCHANGED nonracevars

\* ptask_create writes the descriptor only; pthread_create is thread-safe.
RaceCreate(d) ==
    /\ rpc[d] = "idle"
    /\ \E ok \in BOOLEAN : SetReg(ptask_create(Reg, d, ok))
    /\ UNCHANGED racevars
    /\ UNCHANGED nonracevars

\* ptask_destroy and ptask_join: the test of the state, and pthread_join.
RaceFreeCheck(d) ==
    /\ rpc[d] = "f_check"
    /\ IF rop[d] = "destroy"
       THEN /\ rpc' = [rpc EXCEPT ![d] =
                         IF _ptask_iserror(Reg, d) THEN "f_valid" ELSE "idle"]
            /\ UNCHANGED threads
       ELSE IF _ptask_isjoinable(Reg, d)
       THEN /\ pthread_join_returns(Reg, d)
            /\ threads' = [threads EXCEPT ![ptask[d]._tid] = NoThread]
            /\ rpc' = [rpc EXCEPT ![d] = "f_valid"]
       ELSE /\ rpc' = [rpc EXCEPT ![d] = "idle"]
            /\ UNCHANGED threads
    /\ UNCHANGED <<ptask, _used_ids, _ntasks, _last_task_id, rop, overlap>>
    /\ UNCHANGED nonracevars

\* _ptask_free_id: if(_ptask_isvalid_id(ptask))
RaceFreeValid(d) ==
    /\ rpc[d] = "f_valid"
    /\ rpc' = [rpc EXCEPT ![d] =
                 IF _ptask_isvalid_id(Reg, d) THEN "f_count" ELSE "f_done"]
    /\ UNCHANGED <<ptask, _used_ids, _ntasks, _last_task_id, threads, rop, overlap>>
    /\ UNCHANGED nonracevars

\* --_ntasks;
RaceFreeCount(d) ==
    /\ rpc[d] = "f_count"
    /\ _ntasks' = _ntasks - 1
    /\ rpc' = [rpc EXCEPT ![d] = "f_clear"]
    /\ UNCHANGED <<ptask, _used_ids, _last_task_id, threads, rop, overlap>>
    /\ UNCHANGED nonracevars

\* _used_ids[ptask->id] = false;
RaceFreeClear(d) ==
    /\ rpc[d] = "f_clear"
    /\ _used_ids' = [_used_ids EXCEPT ![ptask[d].id] = FALSE]
    /\ rpc' = [rpc EXCEPT ![d] = "f_done"]
    /\ UNCHANGED <<ptask, _ntasks, _last_task_id, threads, rop, overlap>>
    /\ UNCHANGED nonracevars

\* ptask_destroy copies _ptask_new_task over the descriptor, ptask_join sets
\* PS_FREE; both return.
RaceFreeDone(d) ==
    /\ rpc[d] = "f_done"
    /\ ptask' = [ptask EXCEPT ![d] =
                   IF rop[d] = "destroy" THEN _ptask_new_task
                   ELSE [ptask[d] EXCEPT !._state = PS_FREE]]
    /\ rpc' = [rpc EXCEPT ![d] = "idle"]
    /\ UNCHANGED <<_used_ids, _ntasks, _last_task_id, threads, rop, overlap>>
    /\ UNCHANGED nonracevars

NextRace ==
    \/ \E d \in Descs, op \in RaceOps : RaceCall(d, op)
    \/ \E d \in Descs : RaceInitCheck(d)
    \/ \E d \in Descs : RaceNewIdCheck(d)
    \/ \E d \in Descs : RaceNewIdNext(d)
    \/ \E d \in Descs : RaceNewIdTest(d)
    \/ \E d \in Descs : RaceNewIdCount(d)
    \/ \E d \in Descs : RaceNewIdMark(d)
    \/ \E d \in Descs : RaceNewIdReturn(d)
    \/ \E d \in Descs : RaceCreate(d)
    \/ \E d \in Descs : RaceFreeCheck(d)
    \/ \E d \in Descs : RaceFreeValid(d)
    \/ \E d \in Descs : RaceFreeCount(d)
    \/ \E d \in Descs : RaceFreeClear(d)
    \/ \E d \in Descs : RaceFreeDone(d)
    \/ \E k \in Tids : ThreadExit(k)

SpecRace == InitAny /\ [][NextRace]_vars

(***************************************************************************)
(* Part 5: the period of a task.  The thread of a task calls               *)
(* ptask_start_period once and then, in its loop, ptask_deadline_miss and  *)
(* ptask_wait_for_period.  A struct timespec is a record of tv_sec and     *)
(* tv_nsec, in seconds and nanoseconds as in the program; the clock is     *)
(* read at multiples of CLOCK_STEP milliseconds.                           *)
(***************************************************************************)

\* The milliseconds between two values of the clock.
CLOCK_STEP == 250
\* errno of an interrupted clock_nanosleep.
EINTR == 4

\* The periods and relative deadlines given to ptask_set_params, in ms.
Periods == {250, 500, 1000}
Deadlines == {250, 500}

\* clock_gettime(CLOCK_MONOTONIC, &t): now is the clock in steps.
clock_gettime ==
    [tv_sec |-> (now * CLOCK_STEP) \div 1000,
     tv_nsec |-> ((now * CLOCK_STEP) % 1000) * 1000000]

\* The instant that a struct timespec stands for, in milliseconds.
Ms(ts) == ts.tv_sec * 1000 + ts.tv_nsec \div 1000000

time_copy(ts) == [tv_sec |-> ts.tv_sec, tv_nsec |-> ts.tv_nsec]

\* time_add_ms, for ms >= 0 (where / and % of C are \div and % of TLA+): the
\* carry is taken when tv_nsec is greater than 1000000000, not when it is equal.
time_add_ms(t, ms) ==
    LET sec == t.tv_sec + ms \div 1000
        nsec == t.tv_nsec + (ms % 1000) * 1000000
    IN IF nsec > 1000000000
       THEN [tv_sec |-> sec + 1, tv_nsec |-> nsec - 1000000000]
       ELSE [tv_sec |-> sec, tv_nsec |-> nsec]

time_cmp(t1, t2) ==
    IF t1.tv_sec > t2.tv_sec THEN 1
    ELSE IF t1.tv_sec < t2.tv_sec THEN -1
    ELSE IF t1.tv_nsec > t2.tv_nsec THEN 1
    ELSE IF t1.tv_nsec < t2.tv_nsec THEN -1
    ELSE 0

\* Mutant: the sleep returns 0 whatever the clock.
clock_nanosleep_at_once(clk, request) == 0

\* clock_nanosleep(CLOCK_MONOTONIC, TIMER_ABSTIME, &request, NULL) at clock clk:
\* EINVAL for a tv_nsec outside 0..999999999, 0 once the clock has reached the
\* request, and EINTR when a signal ends the sleep before that.
clock_nanosleep(clk, request) ==
    IF request.tv_nsec < 0 \/ request.tv_nsec > 999999999 THEN EINVAL
    ELSE IF Ms(clk) >= Ms(request) THEN 0
    ELSE EINTR

ptask_start_period(p, clk) ==
    [p EXCEPT !.at = time_add_ms(time_copy(clk), p.period),
              !.dl = time_add_ms(time_copy(clk), p.deadline)]

\* Mutant: the next activation and deadline are counted from the wake-up.
ptask_wait_for_period_from_now(p, clk) ==
    IF clock_nanosleep(clk, p.at) # 0 THEN [ret |-> FALSE, p |-> p]
    ELSE [ret |-> TRUE,
          p |-> [p EXCEPT !.at = time_add_ms(clk, p.period),
                          !.dl = time_add_ms(clk, p.deadline)]]

\* ptask_wait_for_period at clock clk: the loop goes on while clock_nanosleep
\* does not return 0 (ret is FALSE); when it does, at and dl move on by one
\* period.
ptask_wait_for_period(p, clk) ==
    IF clock_nanosleep(clk, p.at) # 0 THEN [ret |-> FALSE, p |-> p]
    ELSE [ret |-> TRUE,
          p |-> [p EXCEPT !.at = time_add_ms(p.at, p.period),
                          !.dl = time_add_ms(p.dl, p.period)]]

ptask_deadline_miss(p, clk) ==
    IF time_cmp(clk, p.dl) > 0
    THEN [ret |-> 1, p |-> [p EXCEPT !.dmiss = @ + 1]]
    ELSE [ret |-> 0, p |-> p]

\* Everything that the calls of part 5 leave alone.
nonperiodvars == <<cabvars, clientvars, histvars, stampvars, muxvars, taskvars,
                   racevars, cabidvars, tcall, appvars>>

\* CLOCK_MONOTONIC advances.
ClockTick ==
    /\ now < MaxClock
    /\ now' = now + 1
    /\ UNCHANGED <<cabvars, clientvars, histvars, timestamp, muxvars, taskvars,
                   extvars>>

\* The thread of the task starts, with the period and the deadline that
\* ptask_set_params stored, and calls ptask_start_period.
PeriodStart(period, deadline) ==
    /\ ppc = "new"
    /\ pt' = ptask_start_period([pt EXCEPT !.period = period,
                                           !.deadline = deadline], clock_gettime)
    /\ ppc' = "run"
    /\ t0' = Ms(clock_gettime)
    /\ UNCHANGED <<nw, intr>>
    /\ UNCHANGED nonperiodvars

PeriodDeadlineMiss ==
    /\ ppc = "run"
    /\ pt.dmiss < MaxMiss
    /\ pt' = ptask_deadline_miss(pt, clock_gettime).p
    /\ UNCHANGED <<ppc, t0, nw, intr>>
    /\ UNCHANGED nonperiodvars

\* The task calls ptask_wait_for_period.
PeriodWaitCall ==
    /\ ppc = "run"
    /\ ppc' = "sleep"
    /\ intr' = 0
    /\ UNCHANGED <<pt, t0, nw>>
    /\ UNCHANGED nonperiodvars

\* A signal interrupts the sleep: clock_nanosleep returns EINTR and the loop
\* calls it again.
PeriodInterrupt ==
    /\ ppc = "sleep"
    /\ clock_nanosleep(clock_gettime, pt.at) = EINTR
    /\ intr < MaxIntr
    /\ intr' = intr + 1
    /\ UNCHANGED <<pt, ppc, t0, nw>>
    /\ UNCHANGED nonperiodvars

\* clock_nanosleep returns 0 and ptask_wait_for_period returns.
PeriodWaitReturn ==
    /\ ppc = "sleep"
    /\ LET res == ptask_wait_for_period(pt, clock_gettime) IN
         /\ res.ret
         /\ pt' = res.p
    /\ ppc' = "run"
    /\ nw' = nw + 1
    /\ UNCHANGED <<t0, intr>>
    /\ UNCHANGED nonperiodvars

NextPeriod ==
    \/ ClockTick
    \/ \E period \in Periods, deadline \in Deadlines : PeriodStart(period, deadline)
    \/ PeriodDeadlineMiss
    \/ PeriodWaitCall
    \/ PeriodInterrupt
    \/ PeriodWaitReturn

SpecPeriod == InitAny /\ [][NextPeriod]_vars

(***************************************************************************)
(* Part 6: the identifiers of the CABs.  The CAB of part 1 was initialised *)
(* first, with id 1; ptask_cab_init is called again, on the same structure *)
(* or after ptask_cab_destroy, while the CAB functions are in use.         *)
(***************************************************************************)

\* PTASK_CAB_MAX is 50 (ptask.h:190); the model works with MaxCabs.
PTASK_CAB_MAX == MaxCabs

\* The structure and the allocator, as one value.
Cab ==
    [id |-> cab_id, num_buffers |-> num_buffers, busy |-> busy,
     last_index |-> last_index, next |-> _next_cab_id]

\* static const struct __PTASK_CAB _ptask_new_cab: all zero.
_ptask_new_cab(C) ==
    [C EXCEPT !.id = 0, !.num_buffers = 0, !.busy = [i \in Indices |-> 0],
              !.last_index = 0]

\* The values of n given to ptask_cab_init.
CabSizes == {2, 3, PTASK_CAB_MAX_SIZE + 1}

_ptask_cab_canallocate(C) == C.next < PTASK_CAB_MAX

\* Mutant: the id is returned and _next_cab_id is not incremented.
_ptask_cab_next_id_same(C) == [id |-> C.next, C |-> C]

\* return _next_cab_id++;
_ptask_cab_next_id(C) == [id |-> C.next, C |-> [C EXCEPT !.next = @ + 1]]

\* ptask_cab_init(&cab, n, size, buffers), on a structure in any state.
ptask_cab_init_on(C, n) ==
    IF n > PTASK_CAB_MAX_SIZE THEN [err |-> EINVAL, C |-> C]
    ELSE IF ~_ptask_cab_canallocate(C) THEN [err |-> EAGAIN, C |-> C]
    ELSE LET a == _ptask_cab_next_id(_ptask_new_cab(C))
         IN [err |-> 0,
             C |-> [a.C EXCEPT !.id = a.id, !.num_buffers = n, !.last_index = -1]]

ptask_cab_destroy(C) == [err |-> 0, C |-> _ptask_new_cab(C)]

SetCab(res) ==
    /\ cab_id' = res.C.id
    /\ num_buffers' = res.C.num_buffers
    /\ busy' = res.C.busy
    /\ last_index' = res.C.last_index
    /\ _next_cab_id' = res.C.next

\* Everything that ptask_cab_init and ptask_cab_destroy leave alone.
noncabidvars == <<clientvars, histvars, stampvars, muxvars, taskvars, racevars,
                  periodvars, tcall, appvars>>

CabInit(n) ==
    /\ LET res == ptask_cab_init_on(Cab, n) IN
         /\ SetCab(res)
         /\ given' = IF res.err = 0 THEN Append(given, res.C.id) ELSE given
    /\ UNCHANGED noncabidvars

CabDestroy ==
    /\ cab_id # 0
    /\ SetCab(ptask_cab_destroy(Cab))
    /\ UNCHANGED given
    /\ UNCHANGED noncabidvars

\* The CAB functions are called on a CAB that is initialised.
CabUse ==
    /\ cab_id # 0
    /\ NextAny

NextCab ==
    \/ \E n \in CabSizes : CabInit(n)
    \/ CabDestroy
    \/ CabUse

SpecCab == InitAny /\ [][NextCab]_vars

(***************************************************************************)
(* Part 7: the time functions of src/src/api/time_utils.c, called with     *)
(* normalised arguments.                                                   *)
(***************************************************************************)

\* Normalised struct timespec values: tv_nsec from 0 to 999999999.
Nsecs == {0, 1, 500000000, 999999999}
Times == [tv_sec : 0..MaxSec, tv_nsec : Nsecs]
\* The milliseconds given to time_add_ms.
Millis == {0, 1, 500, 999, 1000, 1500}

\* time_diff(&tdest, t2, t1): what it returns and what tdest holds afterwards.
time_diff(tdest, t2, t1) ==
    IF time_cmp(t2, t1) < 0 THEN [ret |-> -1, tdest |-> tdest]
    ELSE LET sec == t2.tv_sec - t1.tv_sec
             nsec == t2.tv_nsec - t1.tv_nsec
         IN IF nsec < 0
            THEN [ret |-> 0,
                  tdest |-> [tv_sec |-> sec - 1, tv_nsec |-> 1000000000 - nsec]]
            ELSE [ret |-> 0, tdest |-> [tv_sec |-> sec, tv_nsec |-> nsec]]

\* Everything that the time functions leave alone.
nontimevars == <<cabvars, clientvars, histvars, stampvars, muxvars, taskvars,
                 racevars, periodvars, cabidvars, appvars>>

\* time_diff is called; tdest holds what the last call left in it.
TimeDiff(t2, t1) ==
    /\ LET res == time_diff(tcall.tdest, t2, t1) IN
         tcall' = [op |-> "diff", t1 |-> t1, t2 |-> t2, ms |-> 0, ret |-> res.ret,
                   tdest0 |-> tcall.tdest, tdest |-> res.tdest]
    /\ UNCHANGED nontimevars

\* time_add_ms is called on a copy of t1.
TimeAddMs(t1, ms) ==
    /\ tcall' = [op |-> "add", t1 |-> t1, t2 |-> NoTime, ms |-> ms, ret |-> 0,
                 tdest0 |-> tcall.tdest, tdest |-> time_add_ms(time_copy(t1), ms)]
    /\ UNCHANGED nontimevars

NextTime ==
    \/ \E t2, t1 \in Times : TimeDiff(t2, t1)
    \/ \E t1 \in Times, ms \in Millis : TimeAddMs(t1, ms)

SpecTime == InitAny /\ [][NextTime]_vars

(***************************************************************************)
(* Part 8: the graphical sessions of the application (main.c).  The main   *)
(* thread leaves terminal_mode, starts the tasks with initialize_tasks,    *)
(* waits in main_wait until a task calls main_terminate_tasks, joins the   *)
(* tasks with join_tasks and goes back to terminal_mode.  The threads of   *)
(* the tasks run their bodies beside it.  The calls of Allegro and ALSA    *)
(* in the bodies succeed.                                                  *)
(***************************************************************************)

\* The registry and the descriptors of the application, as one value that
\* the functions below take and give back.
AppReg ==
    [t |-> tasks, used |-> registry.used, ntasks |-> registry.ntasks,
     last |-> registry.last]

\* initialize_tasks starts the tasks in this order (start_analyzer_task
\* starts nothing), join_tasks joins them in that one.
StartOrder == <<TASK_GUI, TASK_UI, TASK_MIC, TASK_FFT>>
JoinOrder == <<TASK_UI, TASK_GUI, TASK_MIC>>

\* The period and deadline that start_*_task hands to ptask_short.  No file
\* of the repository defines TASK_FFT_PERIOD; the period of that descriptor
\* plays no part below.
TaskPeriod(t) ==
    CASE t = TASK_GUI -> TASK_GUI_PERIOD
      [] t = TASK_UI -> TASK_UI_PERIOD
      [] t = TASK_MIC -> TASK_MIC_PERIOD
      [] OTHER -> 0

\* What CLOCK_MONOTONIC reads when a thread calls ptask_start_period.
StartClocks == {NoTime, [tv_sec |-> 0, tv_nsec |-> 970000000]}

\* ptask_init on the registry of the application: _ptask_canallocate, then
\* _ptask_new_id and the reset of the descriptor.
ptask_init_in(R, d) ==
    IF ~(R.ntasks < MaxIds) THEN [err |-> EAGAIN, R |-> R]
    ELSE LET steps == {k \in 1..MaxIds : ~R.used[(R.last + k) % MaxIds]}
             k == CHOOSE k \in steps : \A j \in steps : k <= j
             id == (R.last + k) % MaxIds
         IN [err |-> 0,
             R |-> [R EXCEPT !.last = id, !.ntasks = @ + 1, !.used[id] = TRUE,
                             !.t[d] = [NoAppTask EXCEPT !.id = id,
                                                        !._state = PS_NEW]]]

\* _ptask_free_id on the registry of the application.
_ptask_free_id_in(R, d) ==
    IF R.t[d].id >= 0 /\ R.t[d].id < MaxIds /\ R.used[R.t[d].id]
    THEN [R EXCEPT !.ntasks = @ - 1, !.used[R.t[d].id] = FALSE]
    ELSE R

\* ptask_short as start_*_task calls it: ptask_init, ptask_set_params,
\* ptask_create and, if pthread_create failed (ok is FALSE), ptask_destroy.
\* GET_PRIO gives the priority that suits the scheduler program_init chose,
\* so _ptask_attr_init succeeds.
ptask_short_in(R, d, period, deadline, ok) ==
    LET i == ptask_init_in(R, d)
        p == [i.R EXCEPT !.t[d].period = period, !.t[d].deadline = deadline]
    IN IF i.err # 0 THEN i
       ELSE IF ok THEN [err |-> 0, R |-> [p EXCEPT !.t[d]._state = PS_JOINABLE]]
       ELSE [err |-> EAGAIN,
             R |-> [_ptask_free_id_in(p, d) EXCEPT !.t[d] = NoAppTask]]

\* ptask_join on the registry of the application, once pthread_join has
\* returned.
ptask_join_in(R, d) ==
    IF ~(/\ R.t[d].id >= 0 /\ R.t[d].id < MaxIds /\ R.used[R.t[d].id]
         /\ R.t[d]._state = PS_JOINABLE)
    THEN [err |-> EINVAL, R |-> R]
    ELSE [err |-> 0, R |-> [_ptask_free_id_in(R, d) EXCEPT !.t[d]._state = PS_FREE]]

\* What a call leaves behind.
SetAppReg(R) ==
    /\ tasks' = R.t
    /\ registry' = [used |-> R.used, ntasks |-> R.ntasks, last |-> R.last]

\* Everything that the steps of part 8 leave alone.
nonappvars == <<cabvars, clientvars, histvars, stampvars, muxvars, taskvars,
                racevars, periodvars, cabidvars, tcall>>

\* The process runs: abort_on_error has not called exit and main has not
\* returned.
Alive == mpc \notin {"aborted", "exit"}

(* ---- the main thread ---- *)

\* terminal_mode returns: the user asked for the graphic mode, or quit.
TerminalMode ==
    /\ mpc = "terminal_mode"
    /\ \/ /\ sessions < MaxSessions
          /\ mpc' = "initialize_tasks"
       \/ mpc' = "exit"
    /\ mi' = 1
    /\ UNCHANGED <<tasks_terminate, main_mutex, tasks, registry, tpc, nwait,
                   sessions, orphans>>
    /\ UNCHANGED nonappvars

\* initialize_tasks, one start_*_task at a time; the first statement clears
\* tasks_terminate.  An error makes main call abort_on_error, which exits.
InitializeTasks ==
    /\ mpc = "initialize_tasks"
    /\ LET t == StartOrder[mi] IN
       \E ok \in BOOLEAN :
         LET res == ptask_short_in(AppReg, t, TaskPeriod(t), TaskPeriod(t), ok) IN
           /\ SetAppReg(res.R)
           /\ orphans' = IF tpc[t] # "none" /\ registry.ntasks < MaxIds
                         THEN orphans + 1 ELSE orphans
           /\ IF res.err # 0
              THEN /\ mpc' = "aborted"
                   /\ UNCHANGED <<mi, tpc, nwait>>
              ELSE /\ tpc' = [tpc EXCEPT ![t] = "new"]
                   /\ nwait' = [nwait EXCEPT ![t] = 0]
                   /\ IF mi = Len(StartOrder)
                      THEN mpc' = "lock" /\ mi' = 1
                      ELSE mpc' = mpc /\ mi' = mi + 1
    /\ tasks_terminate' = IF mi = 1 THEN FALSE ELSE tasks_terminate
    /\ UNCHANGED <<main_mutex, sessions>>
    /\ UNCHANGED nonappvars

\* main_wait: ptask_mutex_lock.
MainLock ==
    /\ mpc = "lock"
    /\ main_mutex = "free"
    /\ main_mutex' = "main"
    /\ mpc' = "test"
    /\ UNCHANGED <<tasks_terminate, mi, tasks, registry, tpc, nwait, sessions,
                   orphans>>
    /\ UNCHANGED nonappvars

\* main_wait: the condition of the while; ptask_cond_wait releases the mutex
\* and suspends the thread.
MainTest ==
    /\ mpc = "test"
    /\ IF tasks_terminate
       THEN mpc' = "unlock" /\ main_mutex' = main_mutex
       ELSE mpc' = "cond_wait" /\ main_mutex' = "free"
    /\ UNCHANGED <<tasks_terminate, mi, tasks, registry, tpc, nwait, sessions,
                   orphans>>
    /\ UNCHANGED nonappvars

\* pthread_cond_wait may wake up without a signal.
MainSpurious ==
    /\ mpc = "cond_wait"
    /\ mpc' = "woken"
    /\ UNCHANGED <<tasks_terminate, main_mutex, mi, tasks, registry, tpc, nwait,
                   sessions, orphans>>
    /\ UNCHANGED nonappvars

\* ptask_cond_wait takes the mutex again before it returns.
MainReacquire ==
    /\ mpc = "woken"
    /\ main_mutex = "free"
    /\ main_mutex' = "main"
    /\ mpc' = "test"
    /\ UNCHANGED <<tasks_terminate, mi, tasks, registry, tpc, nwait, sessions,
                   orphans>>
    /\ UNCHANGED nonappvars

\* main_wait: ptask_mutex_unlock.
MainUnlock ==
    /\ mpc = "unlock"
    /\ main_mutex' = "free"
    /\ mpc' = "join_tasks"
    /\ mi' = 1
    /\ UNCHANGED <<tasks_terminate, tasks, registry, tpc, nwait, sessions,
                   orphans>>
    /\ UNCHANGED nonappvars

\* join_tasks, one ptask_join at a time: pthread_join returns when the thread
\* has returned from its body.  After the last one main_wait returns and main
\* goes back to terminal_mode.
JoinTasks ==
    /\ mpc = "join_tasks"
    /\ LET t == JoinOrder[mi]
           res == ptask_join_in(AppReg, t) IN
         /\ res.err = 0 => tpc[t] = "exited"
         /\ SetAppReg(res.R)
         /\ tpc' = IF res.err = 0 THEN [tpc EXCEPT ![t] = "none"] ELSE tpc
    /\ IF mi = Len(JoinOrder)
       THEN mpc' = "terminal_mode" /\ mi' = 1 /\ sessions' = sessions + 1
       ELSE mpc' = mpc /\ mi' = mi + 1 /\ sessions' = sessions
    /\ UNCHANGED <<tasks_terminate, main_mutex, nwait, orphans>>
    /\ UNCHANGED nonappvars

(* ---- the threads of gui_task, user_interaction_task, microphone_task ---- *)

Bodies == {TASK_GUI, TASK_UI, TASK_MIC}

\* The thread starts: the statements before the loop, with
\* ptask_start_period.
TaskBegin(t) ==
    /\ Alive
    /\ tpc[t] = "new"
    /\ \E clk \in StartClocks :
         tasks' = [tasks EXCEPT ![t] = ptask_start_period(tasks[t], clk)]
    /\ tpc' = [tpc EXCEPT ![t] = "loop"]
    /\ UNCHANGED <<tasks_terminate, main_mutex, mpc, mi, registry, nwait,
                   sessions, orphans>>
    /\ UNCHANGED nonappvars

\* The condition of the while: main_get_tasks_terminate locks the mutex,
\* reads tasks_terminate and unlocks.  With the flag set the thread does its
\* cleanup and returns.  Otherwise it runs the body of the loop and calls
\* ptask_wait_for_period; in the body of user_interaction_task the Q key
\* makes handle_keyboard_inputs call main_terminate_tasks.  The model
\* follows MaxWaits periods of each thread.
TaskPoll(t) ==
    /\ Alive
    /\ tpc[t] = "loop"
    /\ main_mutex = "free"
    /\ IF tasks_terminate
       THEN tpc' = [tpc EXCEPT ![t] = "exited"]
       ELSE /\ nwait[t] < MaxWaits
            /\ \/ tpc' = [tpc EXCEPT ![t] = "sleep"]
               \/ /\ t = TASK_UI
                  /\ tpc' = [tpc EXCEPT ![t] = "terminate"]
    /\ UNCHANGED <<tasks_terminate, main_mutex, mpc, mi, tasks, registry, nwait,
                   sessions, orphans>>
    /\ UNCHANGED nonappvars

\* main_terminate_tasks: ptask_mutex_lock.
TerminateLock ==
    /\ Alive
    /\ tpc[TASK_UI] = "terminate"
    /\ main_mutex = "free"
    /\ main_mutex' = "task"
    /\ tpc' = [tpc EXCEPT ![TASK_UI] = "signal"]
    /\ UNCHANGED <<tasks_terminate, mpc, mi, tasks, registry, nwait, sessions,
                   orphans>>
    /\ UNCHANGED nonappvars

\* main_terminate_tasks: the flag is set, ptask_cond_signal wakes the main
\* thread if it is suspended in ptask_cond_wait, and the mutex is unlocked.
\* The body of the loop goes on to ptask_wait_for_period.
TerminateSignal ==
    /\ Alive
    /\ tpc[TASK_UI] = "signal"
    /\ tasks_terminate' = TRUE
    /\ mpc' = IF mpc = "cond_wait" THEN "woken" ELSE mpc
    /\ main_mutex' = "free"
    /\ tpc' = [tpc EXCEPT ![TASK_UI] = "sleep"]
    /\ UNCHANGED <<mi, tasks, registry, nwait, sessions, orphans>>
    /\ UNCHANGED nonappvars

\* ptask_wait_for_period returns: the clock has passed the activation time
\* and clock_nanosleep has returned 0.
TaskWaitReturn(t) ==
    /\ Alive
    /\ tpc[t] = "sleep"
    /\ LET clk == [tv_sec |-> tasks[t].at.tv_sec + 1, tv_nsec |-> 0]
           res == ptask_wait_for_period(tasks[t], clk) IN
         /\ res.ret
         /\ tasks' = [tasks EXCEPT ![t] = res.p]
    /\ tpc' = [tpc EXCEPT ![t] = "loop"]
    /\ nwait' = [nwait EXCEPT ![t] = @ + 1]
    /\ UNCHANGED <<tasks_terminate, main_mutex, mpc, mi, registry, sessions,
                   orphans>>
    /\ UNCHANGED nonappvars

\* The thread of the FFT task: its body polls main_get_tasks_terminate and
\* returns once the flag is set.
fft_task ==
    /\ Alive
    /\ tpc[TASK_FFT] = "new"
    /\ main_mutex = "free"
    /\ tasks_terminate
    /\ tpc' = [tpc EXCEPT ![TASK_FFT] = "exited"]
    /\ UNCHANGED <<tasks_terminate, main_mutex, mpc, mi, tasks, registry, nwait,
                   sessions, orphans>>
    /\ UNCHANGED nonappvars

MainStep ==
    \/ TerminalMode
    \/ InitializeTasks
    \/ MainTest
    \/ MainUnlock
    \/ JoinTasks

NextApp ==
    \/ MainStep
    \/ MainLock
    \/ MainSpurious
    \/ MainReacquire
    \/ \E t \in Bodies : TaskBegin(t)
    \/ \E t \in Bodies : TaskPoll(t)
    \/ TerminateLock
    \/ TerminateSignal
    \/ \E t \in Bodies : TaskWaitReturn(t)
    \/ fft_task

SpecApp == InitAny /\ [][NextApp]_vars

\* Every thread that can run does run, a thread that asks for the mutex gets
\* it, and the user does not stay in terminal_mode for ever.  A spurious
\* wake-up need not happen.
FairApp ==
    /\ WF_vars(MainStep)
    /\ SF_vars(MainLock)
    /\ SF_vars(MainReacquire)
    /\ SF_vars(TerminateLock)
    /\ WF_vars(TerminateSignal)
    /\ WF_vars(fft_task)
    /\ \A t \in Bodies :
         /\ WF_vars(TaskBegin(t))
         /\ SF_vars(TaskPoll(t))
         /\ WF_vars(TaskWaitReturn(t))

SpecAppFair == SpecApp /\ FairApp

(***************************************************************************)
(* Properties of the CAB                                                   *)
(***************************************************************************)

\* The readers that hold a buffer.
Holding == {r \in Readers : rtok[r] # NO_INDEX}

\* What a successful reserve must have done: stopped at a buffer of the CAB
\* that was free and was not the last published one.
ReservedFreeBuffer ==
    /\ call'.err = 0
    /\ call'.b_id \in 0..(num_buffers - 1)
    /\ busy[call'.b_id] = 0
    /\ call'.b_id # last_index

\* C1 (as stated): in a CAB of 3 buffers, with a writer that only reserves and
\* commits and up to 2 readers that fetch and never release, every
\* reserve_write stops at an index in [0, 3) that is free and is not last_index.
C1_TwoReaders ==
    [][(/\ call'.op = "reserve"
        /\ num_buffers = AUDIO_REC_NUM_BUFFERS
        /\ held_only
        /\ Cardinality(Holding) <= 2)
       => ReservedFreeBuffer]_vars

\* C1 (amended): in a CAB of 3 buffers, whenever the writer holds no
\* reservation and at most 1 reader (n - 2) holds a buffer, reserve_write stops
\* at an index in [0, 3) that is free and is not last_index.
C1_OneReader ==
    [][(/\ call'.op = "reserve"
        /\ num_buffers = AUDIO_REC_NUM_BUFFERS
        /\ Cardinality(Holding) <= 1)
       => ReservedFreeBuffer]_vars

\* The writer has obtained the third buffer while one reader holds an older
\* buffer and another buffer is the last published one.
C1_Witness ==
    /\ num_buffers = AUDIO_REC_NUM_BUFFERS
    /\ call.op = "reserve"
    /\ held_only
    /\ Cardinality(Holding) = 1
    /\ last_index >= 0
    /\ \E r \in Holding : rtok[r] # last_index /\ wtok \notin {rtok[r], last_index}
    /\ wtok \in 0..(num_buffers - 1)

\* C2: no buffer is held at the same time by the writer (reserved, not yet
\* committed) and by a reader, and the buffer a reader holds carries a value
\* that was committed and has not been written since, whether or not a reset
\* happened in between.
C2_ReaderSeesCommitted ==
    \A r \in Holding :
        /\ rtok[r] # wtok
        /\ buffers(rtok[r]) # NULL =>
             /\ rval[r] >= 1
             /\ data[buffers(rtok[r])] = rval[r]

\* After a reset, a reader still holds its buffer while the writer has filled
\* another one.
C2_Witness ==
    /\ last_index = NO_INDEX
    /\ wtok # NO_INDEX
    /\ wfilled
    /\ \E r \in Holding : buffers(rtok[r]) # NULL /\ rval[r] >= 1

\* C3: a reserve_read issued after a successful commit, before the next
\* successful commit or reset, succeeds and returns the token of that commit,
\* the reference of that buffer, and the value the writer put into it.
C3_ReadReturnsLastCommit ==
    [][(call'.op = "getmes" /\ last_commit # NO_INDEX)
       => /\ call'.err = 0
          /\ call'.b_id = last_commit
          /\ call'.buffer = buffers(last_commit)
          /\ call'.buffer # NULL => rval'[call'.r] = seq]_vars

\* A reader has fetched the value of the second commit or a later one.
C3_Witness ==
    /\ call.op = "getmes"
    /\ call.err = 0
    /\ seq >= 2
    /\ call.b_id = last_commit
    /\ call.buffer # NULL
    /\ rval[call.r] = seq

\* C4: the index that reserve_write marks busy and returns had busy count 0
\* and was not last_index when the scan ran; only that count changes.
C4_ReserveSkipsBusyAndLast ==
    [][call'.op = "reserve"
       => /\ busy[call'.b_id] = 0
          /\ call'.b_id # last_index
          /\ busy' = [busy EXCEPT ![call'.b_id] = 1]
          /\ last_index' = last_index]_vars

\* The scan has passed a free buffer because it is the last published one, and
\* a buffer held by a reader, before it stopped.
C4_Witness ==
    /\ call.op = "reserve"
    /\ last_index >= 0
    /\ last_index < wtok
    /\ busy[last_index] = 0
    /\ \E r \in Holding : rtok[r] < wtok
    /\ busy[wtok] = 1

\* A failed call leaves the busy counts and last_index as they were.
CabUnchanged ==
    /\ busy' = busy
    /\ last_index' = last_index

\* C5 (as stated): once a token has been committed, a further commit of it that
\* no reserve_write returning that token precedes returns EINVAL and changes
\* neither busy[] nor last_index, whatever fetches, releases, reservations and
\* commits have happened in between.
C5_DoubleCommitRejected ==
    [][(call'.op = "putmes" /\ call'.b_id \in stale)
       => (call'.err = EINVAL /\ CabUnchanged)]_vars

\* C5 (amended): a further commit of a committed token returns EINVAL and
\* changes neither busy[] nor last_index as long as that token is still the
\* last published one (no other commit and no reset since), whatever fetches
\* and releases have happened in between.
C5_DoubleCommitOfLastRejected ==
    [][(call'.op = "putmes" /\ call'.b_id \in stale /\ call'.b_id = last_commit)
       => (call'.err = EINVAL /\ CabUnchanged)]_vars

\* The commit of the last published token was repeated while exactly one
\* reader held that buffer, and was rejected.
C5_Witness ==
    /\ call.op = "putmes"
    /\ call.err = EINVAL
    /\ call.b_id = last_commit
    /\ call.b_id \in stale
    /\ busy[call.b_id] = 1

\* C6: commit(token) succeeds exactly when busy[token] = 1 and token is not
\* last_index; on success busy[token] becomes 0, last_index becomes token and
\* no other count changes; on failure it returns EINVAL and changes nothing.
C6_CommitContract ==
    [][call'.op = "putmes"
       => /\ call'.err = 0 <=> (busy[call'.b_id] = 1 /\ call'.b_id # last_index)
          /\ call'.err = 0 =>
               /\ busy' = [busy EXCEPT ![call'.b_id] = 0]
               /\ last_index' = call'.b_id
          /\ call'.err # 0 => (call'.err = EINVAL /\ CabUnchanged)]_vars

\* A commit has succeeded while another buffer stayed busy.
C6_Witness ==
    /\ call.op = "putmes"
    /\ call.err = 0
    /\ last_index = call.b_id
    /\ busy[call.b_id] = 0
    /\ \E i \in Tokens : i # call.b_id /\ busy[i] > 0

\* C7: reserve_read returns EAGAIN, changing no count, exactly when no commit
\* has succeeded since the initialisation or the last reset; otherwise it
\* returns token = last_index, adds exactly one to busy[token] and leaves
\* last_index unchanged.
C7_FetchContract ==
    [][call'.op = "getmes"
       => /\ call'.err = EAGAIN <=> last_commit = NO_INDEX
          /\ call'.err = EAGAIN <=> last_index = NO_INDEX
          /\ call'.err = EAGAIN => CabUnchanged
          /\ call'.err # EAGAIN =>
               /\ call'.err = 0
               /\ call'.b_id = last_index
               /\ busy' = [busy EXCEPT ![last_index] = @ + 1]
               /\ last_index' = last_index]_vars

\* A fetch has failed after a value had been published and the CAB was reset.
C7_Witness ==
    /\ call.op = "getmes"
    /\ call.err = EAGAIN
    /\ seq >= 1
    /\ last_index = NO_INDEX

\* C8: release(token) returns EINVAL and leaves the count unchanged when
\* busy[token] < 1, otherwise it subtracts exactly one from busy[token]; no
\* busy count is ever negative.
C8_ReleaseContract ==
    [][/\ call'.op = "unget" =>
            /\ busy[call'.b_id] < 1 => (call'.err = EINVAL /\ CabUnchanged)
            /\ busy[call'.b_id] >= 1 =>
                 /\ call'.err = 0
                 /\ busy' = [busy EXCEPT ![call'.b_id] = @ - 1]
                 /\ last_index' = last_index
       /\ \A i \in Indices : busy'[i] >= 0]_vars

\* A release of a buffer nobody holds has been rejected.
C8_Witness ==
    /\ call.op = "unget"
    /\ call.err = EINVAL
    /\ busy[call.b_id] = 0
    /\ \E i \in Tokens : busy[i] > 0

\* C9: reset sets last_index to none and changes no busy count; a reserve_read
\* issued before the next successful commit returns EAGAIN; a buffer that a
\* reader or the writer goes on holding keeps busy > 0.
C9_ResetKeepsHeldBuffers ==
    [][/\ call'.op = "reset" => (last_index' = NO_INDEX /\ busy' = busy)
       /\ (call'.op = "getmes" /\ last_commit = NO_INDEX)
            => (call'.err = EAGAIN /\ busy' = busy)
       /\ \A r \in Holding : rtok'[r] = rtok[r] => busy'[rtok[r]] > 0
       /\ (wtok # NO_INDEX /\ wtok' = wtok) => busy'[wtok] > 0]_vars

\* A fetch has failed after a reset while another reader still holds the buffer
\* it fetched before the reset.
C9_Witness ==
    /\ call.op = "getmes"
    /\ call.err = EAGAIN
    /\ \E r \in Holding : busy[rtok[r]] > 0 /\ rval[r] >= 1

\* C10: in a CAB of 2 buffers, while reader A holds the buffer t it fetched:
\* if t is the last published buffer and no other buffer is held, reserve_write
\* returns the other buffer; the commit of that buffer succeeds and publishes
\* it; a fetch by another reader then returns the other buffer and its value;
\* A's token stays t, t is never handed to the writer and keeps the value A
\* fetched; when A releases as the only holder, busy[t] becomes 0 and the other
\* buffer stays last_index.
C10_HeldBufferKeepsValue ==
    [][num_buffers = 2 =>
       \A a \in Holding :
         LET t == rtok[a]
             o == 1 - rtok[a]
         IN  t \in {0, 1} =>
             /\ (/\ call'.op = "reserve"
                 /\ last_index = t
                 /\ \A r \in Holding : rtok[r] = t)
                  => (call'.b_id = o /\ call'.buffer = buffers(o))
             /\ (call'.op = "putmes" /\ wtok = o /\ last_index = t)
                  => (call'.err = 0 /\ last_index' = o /\ busy'[o] = 0)
             /\ (call'.op = "getmes" /\ last_index = o)
                  => /\ call'.err = 0
                     /\ call'.b_id = o
                     /\ rval'[call'.r] = seq
                     /\ rtok'[a] = t
             /\ (/\ call'.op = "unget"
                 /\ call'.by = "reader"
                 /\ call'.r = a
                 /\ busy[t] = 1
                 /\ last_index = o)
                  => (busy'[t] = 0 /\ last_index' = o)
             /\ rtok'[a] = t => (wtok' # t /\ data'[buffers(t)] = rval[a])]_vars

\* The scenario has run to its end: two values were committed, B holds the
\* last published buffer with the second value, and A has just released the
\* other buffer, which is free.
C10_Witness ==
    /\ num_buffers = 2
    /\ seq = 2
    /\ held_only = FALSE
    /\ call.op = "unget"
    /\ call.by = "reader"
    /\ call.err = 0
    /\ call.b_id = 1 - last_index
    /\ busy[call.b_id] = 0
    /\ \E b \in Holding : b # call.r /\ rtok[b] = last_index /\ rval[b] = 2
    /\ busy[last_index] = 1
    /\ wtok = NO_INDEX

\* C11: every successful commit stamps the CAB's timestamp with the current
\* time (the timestamp a later fetch is documented to return, ptask.h:479).
\* ptask_cab_putmes does not: the field keeps the zero of _ptask_new_cab.
C11_CommitStamps ==
    [][(call'.op = "putmes" /\ call'.err = 0) => timestamp' = now']_vars

\* C12: in a CAB of n buffers, when the writer holds no reservation and at most
\* n - 2 readers hold a buffer (one each), the scan of reserve_write stops at an
\* index in [0, n), whatever commits, fetches, releases and resets came before.
C12_ScanStaysInside ==
    [][(/\ call'.op = "reserve"
        /\ wtok = NO_INDEX
        /\ Cardinality(Holding) <= num_buffers - 2)
       => (call'.err = 0 /\ call'.b_id \in 0..(num_buffers - 1))]_vars

\* After releases or a reset, the writer has obtained the last buffer of the CAB
\* while n - 2 readers (at least one) hold buffers and another buffer is the
\* last published one.
C12_Witness ==
    /\ call.op = "reserve"
    /\ ~held_only
    /\ num_buffers > 2
    /\ Cardinality(Holding) = num_buffers - 2
    /\ wtok = num_buffers - 1
    /\ last_index \in 0..(num_buffers - 2)

\* C13: with a fair mutex and two buffers more than readers, every started
\* reserve_write, commit, reserve_read, release and reset returns, whatever
\* the threads hold and whether or not any of them ever releases or commits.
C13_EveryCallReturns ==
    \A t \in Threads : (pc[t] # "idle") ~> (pc[t] = "idle")

\* The writer has started reserve_write and is suspended on the mutex, which a
\* reader owns: the reader holds a buffer and is inside release.
C13_Witness ==
    /\ pc[WRITER] = "lock"
    /\ cur[WRITER].op = "reserve"
    /\ \E r \in Threads : mux = r /\ rtok[r] # NO_INDEX /\ cur[r].op = "unget"

\* C14: a thread that is at a statement of a CAB function that reads or writes
\* busy[] or last_index owns the CAB mutex; a thread that is outside the CAB
\* functions, is suspended in ptask_mutex_lock or has reached the statements
\* before the return does not own it; and the owner of the CAB mutex owns no
\* other mutex.
C14_MutexDiscipline ==
    \A t \in Threads :
        /\ accesses(pc[t]) => mux = t
        /\ pc[t] \in {"idle", "lock", "out"} => mux # t
        /\ mux = t => other # t

\* A reader is inside the critical section of a fetch while the writer, which
\* holds a reservation, owns the mutex of the other CAB.
C14_Witness ==
    /\ \E r \in Threads : r # WRITER /\ mux = r /\ pc[r] = "body" /\ cur[r].op = "getmes"
    /\ other = WRITER
    /\ wtok # NO_INDEX

(***************************************************************************)
(* Properties of the tasks                                                 *)
(***************************************************************************)

\* The transitions of the state machine of a descriptor: Free to New (init),
\* New to Joinable (create), New to Error (failed create), Joinable to Free
\* (join), Error to Free (destroy); and Free to Joinable, which short_create
\* makes in one call by going through New.
Listed ==
    {<<PS_FREE, PS_NEW>>, <<PS_NEW, PS_JOINABLE>>, <<PS_NEW, PS_ERROR>>,
     <<PS_JOINABLE, PS_FREE>>, <<PS_ERROR, PS_FREE>>, <<PS_FREE, PS_JOINABLE>>}

\* The step is a successful ptask_init of d, or a ptask_short of d whose
\* ptask_init succeeded.
InitStep(d) ==
    /\ ptask_init(Reg, d).err = 0
    /\ \/ ptask' = ptask_init(Reg, d).S.t
       \/ \E par \in Params, priority \in Priorities, ok \in BOOLEAN :
            ptask' = ptask_short(Reg, d, par.wcet, par.period, par.deadline,
                                 priority, ok).S.t

\* C15 (as stated): the state of a descriptor changes only along the listed
\* transitions; every other attempted transition, init included, is rejected.
C15_ListedTransitionsOnly ==
    [][\A d \in Descs :
          ptask'[d]._state # ptask[d]._state
          => <<ptask[d]._state, ptask'[d]._state>> \in Listed]_vars

\* The call returned EINVAL and changed nothing.
Rejected(res) == res.err = EINVAL /\ res.S = Reg

\* set_params and create on a descriptor that is not New, destroy on one that
\* is not Error, cancel and join on one that is not Joinable are rejected.
RejectedOutside(d) ==
    /\ ptask[d]._state # PS_NEW
       => /\ \A par \in Params, priority \in Priorities :
               Rejected(ptask_set_params(Reg, d, par.wcet, par.period,
                                         par.deadline, priority))
          /\ \A ok \in BOOLEAN : Rejected(ptask_create(Reg, d, ok))
    /\ ptask[d]._state # PS_ERROR => Rejected(ptask_destroy(Reg, d))
    /\ ptask[d]._state # PS_JOINABLE
       => Rejected(ptask_cancel(Reg, d)) /\ Rejected(ptask_join(Reg, d))

\* C15 (amended): the state of a descriptor changes only along the listed
\* transitions, or by an init (alone or inside short_create) that succeeds on a
\* descriptor that is New, Joinable or Error and starts it again from New;
\* every other transition attempted by set_params, create, destroy, cancel or
\* join is rejected with EINVAL.
C15_ListedOrInit ==
    /\ [](\A d \in Descs : RejectedOutside(d))
    /\ [][\A d \in Descs :
             ptask'[d]._state # ptask[d]._state
             => \/ <<ptask[d]._state, ptask'[d]._state>> \in Listed
                \/ ptask[d]._state # PS_FREE /\ InitStep(d)]_vars

\* A descriptor has been initialised a second time with no destroy and no join
\* in between: it is New with another identifier, and its first identifier is
\* still marked in use though no descriptor carries it.
C15_Witness ==
    \E d \in Descs :
        /\ ptask[d]._state = PS_NEW
        /\ ptask[d].id = 1
        /\ _used_ids[0]
        /\ _ntasks = 2
        /\ \A e \in Descs : e # d => ptask[e]._state = PS_FREE /\ ptask[e]._tid = 0
                                      /\ ptask[e].priority = 0 /\ ptask[e].wcet = 0
        /\ \A k \in Tids : threads[k].st = "none"

\* C16: set_params and create on a descriptor that is not New, destroy on one
\* that is not Error, cancel and join on one that is not Joinable return EINVAL
\* and leave the descriptors, the registry and the threads as they were.
C16_WrongStateRejected == \A d \in Descs : RejectedOutside(d)

\* One descriptor is Joinable with its thread running and another is in Error
\* after a failed create: destroy of the first and join of the second have
\* just been rejected.
C16_Witness ==
    \E d, e \in Descs :
        /\ ptask[d]._state = PS_JOINABLE
        /\ threads[ptask[d]._tid].st = "running"
        /\ ptask[e]._state = PS_ERROR
        /\ Rejected(ptask_destroy(Reg, d))
        /\ Rejected(ptask_join(Reg, e))

\* The descriptors that hold an identifier: New, Joinable or Error.
Live == {d \in Descs : ptask[d]._state # PS_FREE}

\* C17: init fails with EAGAIN, leaving the descriptors and the registry as they
\* were, exactly when all PTASK_MAX identifiers are allocated; as soon as a join
\* or a destroy has freed one, init succeeds again.
C17_InitFailsWhenFull ==
    \A d \in Descs :
        /\ (\A i \in Ids : _used_ids[i])
           => ptask_init(Reg, d) = [err |-> EAGAIN, S |-> Reg]
        /\ (\E i \in Ids : ~_used_ids[i])
           => /\ ptask_init(Reg, d).err = 0
              /\ ptask_init(Reg, d).S.t[d]._state = PS_NEW
              /\ ~_used_ids[ptask_init(Reg, d).S.t[d].id]

\* Every identifier is held by a live descriptor, one of them Joinable with its
\* thread exited: init fails on all of them, and the join of that one is the
\* next call that can change it.
C17_Witness ==
    /\ _ntasks = PTASK_MAX
    /\ Cardinality(Live) = PTASK_MAX
    /\ ~reinit
    /\ \A d \in Descs : ptask_init(Reg, d).err = EAGAIN
    /\ \E d \in Descs : /\ ptask[d]._state = PS_JOINABLE
                          /\ threads[ptask[d]._tid].st = "exited"
                          /\ ptask_init(ptask_join(Reg, d).S, d).err = 0

\* C18: the descriptors that are New, Joinable or Error hold identifiers in
\* [0, PTASK_MAX) that are marked in use and differ from one another.
C18_LiveIdsDistinct ==
    \A d \in Live :
        /\ ptask[d].id \in Ids
        /\ _used_ids[ptask[d].id]
        /\ \A e \in Live : e # d => ptask[e].id # ptask[d].id

\* After the identifiers have wrapped around: the descriptor initialised last
\* holds an identifier below the one of an older live descriptor.
C18_Witness ==
    \E d, e \in Live :
        /\ ptask[d].id < ptask[e].id
        /\ _last_task_id = ptask[d].id
        /\ ptask[e]._state = PS_JOINABLE
        /\ ptask[d]._state = PS_NEW

\* The threads started and not joined that read identifier i from the
\* descriptor they were given.
ThreadsOf(i) ==
    {k \in Tids : threads[k].st # "none" /\ ptask[threads[k].arg].id = i}

\* C19 (as stated): whatever the sequence of calls, at most one thread started
\* by create and not yet joined is associated with a task identifier.
C19_OneThreadPerId == \A i \in Ids : Cardinality(ThreadsOf(i)) <= 1

\* C19 (amended): as long as init and short_create have not been applied to a
\* descriptor whose thread was started and not joined, at most one thread
\* started by create and not yet joined is associated with a task identifier.
C19_OneThreadPerIdUnlessReinit ==
    ~reinit => \A i \in Ids : Cardinality(ThreadsOf(i)) <= 1

\* Every descriptor is Joinable, each with its own thread, and one of them got
\* its identifier back after a join.
C19_Witness ==
    /\ ~reinit
    /\ \A d \in Descs : ptask[d]._state = PS_JOINABLE
    /\ \A i \in Ids : Cardinality(ThreadsOf(i)) = 1
    /\ \E d \in Descs : ptask[d].id = 0 /\ _last_task_id = 0 /\ ptask[d]._tid # 1

\* The priority does not fit the policy: not zero under SCHED_OTHER, zero under
\* SCHED_FIFO and SCHED_RR.
BadPriority(priority) ==
    \/ _scheduler = SCHED_OTHER /\ priority # 0
    \/ _scheduler # SCHED_OTHER /\ priority = 0

\* C20 (as stated): set_params fails with EINVAL and leaves the parameters
\* unchanged when the priority does not fit the policy.
C20_SetParamsValidates ==
    \A d \in Descs : \A par \in Params, priority \in Priorities :
        (ptask[d]._state = PS_NEW /\ BadPriority(priority))
        => Rejected(ptask_set_params(Reg, d, par.wcet, par.period, par.deadline,
                                     priority))

\* C20 (amended): set_params on a New descriptor returns 0 and stores the
\* priority whether or not it fits the policy; create is what validates it:
\* with a priority that does not fit the policy, create fails with EINVAL,
\* starts no thread and leaves the descriptor in Error, parameters unchanged.
C20_CreateValidates ==
    \A d \in Descs :
        ptask[d]._state = PS_NEW
        => /\ \A par \in Params, priority \in Priorities :
                LET res == ptask_set_params(Reg, d, par.wcet, par.period,
                                            par.deadline, priority)
                IN res.err = 0 /\ res.S.t[d].priority = priority
           /\ BadPriority(ptask[d].priority)
              => \A ok \in BOOLEAN :
                   ptask_create(Reg, d, ok) =
                     [err |-> EINVAL,
                      S |-> [Reg EXCEPT !.t[d]._state = PS_ERROR]]

\* A descriptor is in Error with the non-zero priority that set_params stored
\* under SCHED_OTHER, and no thread was started for it.
C20_Witness ==
    /\ _scheduler = SCHED_OTHER
    /\ \E d \in Descs : /\ ptask[d]._state = PS_ERROR
                          /\ ptask[d].priority # 0
                          /\ ptask[d]._tid = 0
    /\ \A k \in Tids : threads[k].st = "none"

\* The thread handles that a call has changed.
Touched(res) == {k \in Tids : res.S.threads[k] # threads[k]}

\* C21: create on a descriptor in New either returns 0, has started exactly
\* one thread with the descriptor as its argument and leaves the state
\* Joinable, or returns an error, has started no thread and leaves the state
\* Error; a priority that does not fit the policy gives the second outcome.
\* The identifier stays allocated in both.
C21_CreateOutcomes ==
    \A d \in Descs : \A ok \in BOOLEAN :
        _ptask_isnew(Reg, d)
        => LET res == ptask_create(Reg, d, ok) IN
             /\ \/ /\ res.err = 0
                   /\ res.S.t[d]._state = PS_JOINABLE
                   /\ Cardinality(Touched(res)) = 1
                   /\ \A k \in Touched(res) :
                        /\ threads[k] = NoThread
                        /\ res.S.threads[k] = [st |-> "running", arg |-> d]
                \/ /\ res.err # 0
                   /\ res.S.t[d]._state = PS_ERROR
                   /\ Touched(res) = {}
             /\ BadPriority(ptask[d].priority) => res.err # 0
             /\ res.S.t[d].id = ptask[d].id
             /\ res.S.used = _used_ids
             /\ res.S.ntasks = _ntasks

\* One descriptor is Joinable and its thread runs with it as argument; another
\* is in Error, no thread was started for it, and its identifier is allocated.
C21_Witness ==
    \E d, e \in Descs :
        /\ ptask[d]._state = PS_JOINABLE
        /\ threads[ptask[d]._tid] = [st |-> "running", arg |-> d]
        /\ ptask[e]._state = PS_ERROR
        /\ ptask[e]._tid = 0
        /\ _used_ids[ptask[e].id]
        /\ Cardinality({k \in Tids : threads[k] # NoThread}) = 1

\* C22: destroy on a descriptor in Error returns 0, takes one off the count,
\* marks the identifier of the descriptor as not in use, and leaves the
\* descriptor Free with the default values; the other descriptors, the other
\* identifiers and the threads are as before.
C22_DestroyReleases ==
    \A d \in Descs :
        _ptask_iserror(Reg, d)
        => LET res == ptask_destroy(Reg, d) IN
             /\ res.err = 0
             /\ res.S.ntasks = _ntasks - 1
             /\ ~res.S.used[ptask[d].id]
             /\ \A i \in Ids : i # ptask[d].id => res.S.used[i] = _used_ids[i]
             /\ res.S.t[d] = _ptask_new_task
             /\ \A e \in Descs : e # d => res.S.t[e] = ptask[e]
             /\ res.S.threads = threads

\* A descriptor in Error is destroyed beside a Joinable one whose thread runs:
\* its identifier is given out again by the next ptask_init.
C22_Witness ==
    \E d, e \in Descs :
        /\ ptask[d]._state = PS_ERROR
        /\ ptask[e]._state = PS_JOINABLE
        /\ threads[ptask[e]._tid].st = "running"
        /\ _ntasks = 2
        /\ LET res == ptask_destroy(Reg, d) IN
             /\ res.err = 0
             /\ res.S.ntasks = 1
             /\ ptask_init(res.S, d).S.t[d].id = ptask[d].id

\* C23: when ptask_short returns an error, the count, the identifiers in use
\* and the threads are the same as before the call.
C23_ShortNeverLeaks ==
    \A d \in Descs : \A par \in Params, priority \in Priorities, ok \in BOOLEAN :
        LET res == ptask_short(Reg, d, par.wcet, par.period, par.deadline,
                               priority, ok)
        IN res.err # 0
           => /\ res.S.ntasks = _ntasks
              /\ res.S.used = _used_ids
              /\ res.S.threads = threads

\* ptask_short fails on a free slot, once for the priority and once for the
\* thread start, beside a running task: the identifier it took (the registry
\* has moved on to it) is not in use afterwards.
C23_Witness ==
    \E d, e \in Descs : \E par \in Params :
        /\ ptask[e]._state = PS_JOINABLE
        /\ threads[ptask[e]._tid].st = "running"
        /\ ptask[d]._state = PS_FREE
        /\ _ntasks = 1
        /\ _scheduler = SCHED_OTHER
        /\ LET bad == ptask_short(Reg, d, par.wcet, par.period, par.deadline, 1, TRUE)
               nothread == ptask_short(Reg, d, par.wcet, par.period, par.deadline,
                                       0, FALSE)
           IN /\ bad.err = EINVAL
              /\ bad.S.last # _last_task_id
              /\ ~bad.S.used[bad.S.last]
              /\ nothread.err = EAGAIN
              /\ ~nothread.S.used[nothread.S.last]

\* The step of a successful join of descriptor d: d was Joinable, is Free, and
\* its thread has been reaped.
JoinStep(d) ==
    /\ _ptask_isjoinable(Reg, d)
    /\ ptask'[d]._state = PS_FREE
    /\ threads'[ptask[d]._tid] = NoThread

\* C24: join on a Joinable descriptor returns only when the thread of the
\* descriptor has terminated; on return the descriptor is Free, its identifier
\* is not in use and the count is one less.
C24_JoinWaitsAndReleases ==
    /\ [](\A d \in Descs :
            _ptask_isjoinable(Reg, d)
            => LET res == ptask_join(Reg, d) IN
                 /\ res.S.t[d]._state = PS_FREE
                 /\ ~res.S.used[ptask[d].id]
                 /\ res.S.ntasks = _ntasks - 1
                 /\ res.S.threads[ptask[d]._tid] = NoThread)
    /\ [][\A d \in Descs :
            JoinStep(d) => /\ threads[ptask[d]._tid].st = "exited"
                           /\ _ntasks' = _ntasks - 1
                           /\ ~_used_ids'[ptask[d].id]]_vars

\* A descriptor has been joined: it is Free and still names the thread it had,
\* the thread is gone, and the identifier it had is not in use.
C24_Witness ==
    \E d \in Descs :
        /\ ptask[d]._state = PS_FREE
        /\ ptask[d]._tid \in Tids
        /\ threads[ptask[d]._tid] = NoThread
        /\ ~_used_ids[ptask[d].id]
        /\ _ntasks = 0

\* C25: cancel on a Joinable descriptor returns with the thread not reaped and,
\* if it was running, still not terminated, only with the request pending; the
\* descriptors, the identifiers in use, the count and the other threads are as
\* before, and join is still accepted and is what frees the identifier.
C25_CancelOnlyRequests ==
    \A d \in Descs :
        _ptask_isjoinable(Reg, d)
        => LET res == ptask_cancel(Reg, d)
               k == ptask[d]._tid
           IN /\ res.S.t = ptask
              /\ res.S.used = _used_ids
              /\ res.S.ntasks = _ntasks
              /\ res.S.last = _last_task_id
              /\ res.S.threads[k].arg = threads[k].arg
              /\ res.S.threads[k].st =
                   IF threads[k].st = "running" THEN "cancelling" ELSE threads[k].st
              /\ \A j \in Tids : j # k => res.S.threads[j] = threads[j]
              /\ _ptask_isjoinable(res.S, d)
              /\ ~ptask_join(res.S, d).S.used[ptask[d].id]

\* A cancelled thread has not terminated yet: its descriptor is Joinable and
\* its identifier is in use.
C25_Witness ==
    \E d \in Descs :
        /\ ptask[d]._state = PS_JOINABLE
        /\ threads[ptask[d]._tid] = [st |-> "cancelling", arg |-> d]
        /\ _used_ids[ptask[d].id]
        /\ _ntasks = 1

\* No caller is inside a registry function.
Quiet == \A d \in Descs : rpc[d] = "idle"

\* No two initialised descriptors have the same identifier, and between the
\* calls _ntasks is the number of identifiers in use.
RegistryConsistent ==
    /\ \A d, e \in Live : d # e => ptask[d].id # ptask[e].id
    /\ Quiet => _ntasks = Cardinality({i \in Ids : _used_ids[i]})

\* C26 (as stated): with init, destroy and join called by different threads at
\* the same time, no two init calls obtain the same identifier and the count
\* equals the number of identifiers in use.
C26_MutuallyExclusive == RegistryConsistent

\* C26 (amended): the registry has no lock and its functions are for one
\* designated thread; as long as no two calls of init, destroy and join have
\* overlapped, no two init calls have obtained the same identifier and, between
\* the calls, the count equals the number of identifiers in use.
C26_ConsistentWhenSerial == ~overlap => RegistryConsistent

\* Both descriptors have been initialised, one call after the other, after an
\* identifier had been freed and given out again.
C26_Witness ==
    /\ ~overlap
    /\ Quiet
    /\ _ntasks = 2
    /\ _last_task_id = 0
    /\ \E d, e \in Descs : /\ ptask[d]._state = PS_NEW /\ ptask[d].id = 0
                             /\ ptask[e]._state = PS_NEW /\ ptask[e].id = 1

(***************************************************************************)
(* Properties of the period of a task                                      *)
(***************************************************************************)

\* C27: after ptask_start_period at clock t0 and nw returns of
\* ptask_wait_for_period, at is the instant t0 + (nw+1)*period and dl is the
\* instant t0 + deadline + nw*period, whenever the task woke up.
C27_DriftFree ==
    ppc # "new"
    => /\ Ms(pt.at) = t0 + (nw + 1) * pt.period
       /\ Ms(pt.dl) = t0 + pt.deadline + nw * pt.period

\* The task has come back from ptask_wait_for_period twice, the last time
\* later than its activation time.
C27_Witness ==
    /\ ppc = "run"
    /\ nw = 2
    /\ Ms(clock_gettime) > t0 + nw * pt.period
    /\ Ms(pt.at) = t0 + 3 * pt.period

\* C28: ptask_wait_for_period does not return before the clock has reached the
\* at that the descriptor had when it was called, whether or not the sleep
\* was interrupted.
C28_NoEarlyReturn ==
    [][nw' = nw + 1 => Ms(clock_gettime) >= Ms(pt.at)]_vars

\* ptask_wait_for_period has returned after its sleep was interrupted twice.
C28_Witness ==
    /\ ppc = "run"
    /\ nw >= 1
    /\ intr = 2

\* C29: a task in ptask_wait_for_period comes back once the clock has passed
\* at: the loop around clock_nanosleep ends.
C29_WaitReturnsWhenDue ==
    (ppc = "sleep" /\ Ms(clock_gettime) > Ms(pt.at))
    => ptask_wait_for_period(pt, clock_gettime).ret

\* C30: ptask_deadline_miss reports a miss exactly when the clock is past dl;
\* dmiss is one more after a miss and the same otherwise; at and dl are left
\* alone.
C30_MissExactlyWhenLate ==
    ppc = "run"
    => LET res == ptask_deadline_miss(pt, clock_gettime) IN
         /\ (res.ret # 0) = (Ms(clock_gettime) > Ms(pt.dl))
         /\ res.p.dmiss = IF res.ret # 0 THEN pt.dmiss + 1 ELSE pt.dmiss
         /\ res.p.at = pt.at
         /\ res.p.dl = pt.dl

(***************************************************************************)
(* Further properties of the task registry                                 *)
(***************************************************************************)

\* C31: ptask_set_scheduler stores SCHED_OTHER, SCHED_RR and SCHED_FIFO and
\* returns 0; for any other value it returns EINVAL and _scheduler stays as it
\* was, so that _scheduler is always the last accepted policy.
C31_SchedulerAcceptedOrKept ==
    /\ [](\A sch \in Schedulers :
            LET res == ptask_set_scheduler(sch) IN
              IF sch \in {SCHED_OTHER, SCHED_RR, SCHED_FIFO}
              THEN res.err = 0 /\ res.scheduler = sch
              ELSE res.err = EINVAL /\ res.scheduler = _scheduler)
    /\ [][_scheduler' # _scheduler
          => _scheduler' \in {SCHED_OTHER, SCHED_RR, SCHED_FIFO}]_vars

\* SCHED_FIFO has been stored, SCHED_DEADLINE is refused, and a task is then
\* initialised under SCHED_FIFO: a zero priority is refused by ptask_create.
C31_Witness ==
    /\ _scheduler = SCHED_FIFO
    /\ ptask_set_scheduler(SCHED_DEADLINE) = [err |-> EINVAL, scheduler |-> SCHED_FIFO]
    /\ \E d \in Descs : /\ ptask[d]._state = PS_NEW
                          /\ ptask[d].priority = 0
                          /\ ptask_create(Reg, d, TRUE).err = EINVAL

\* The count is the number of identifiers in use and is at most PTASK_MAX.
CountIsUsed ==
    /\ _ntasks = Cardinality({i \in Ids : _used_ids[i]})
    /\ _ntasks <= PTASK_MAX

\* C35 (as stated): after any sequence of calls the count is the number of
\* identifiers in use and the number of descriptors in New, Joinable or Error,
\* and is at most PTASK_MAX.
C35_NoIdLost == CountIsUsed /\ _ntasks = Cardinality(Live)

\* C35 (amended): after any sequence of calls the count is the number of
\* identifiers in use and is at most PTASK_MAX; it is the number of descriptors
\* in New, Joinable or Error as long as init and short_create have only been
\* applied to descriptors in Free.
C35_NoIdLostUnlessOverwritten ==
    /\ CountIsUsed
    /\ ~overwritten => _ntasks = Cardinality(Live)

\* Every identifier is allocated, to a Joinable and to an Error descriptor,
\* after one of them had been released and allocated again; no descriptor was
\* overwritten.
C35_Witness ==
    /\ ~overwritten
    /\ _ntasks = PTASK_MAX
    /\ \E d, e \in Descs : /\ ptask[d]._state = PS_JOINABLE
                             /\ ptask[e]._state = PS_ERROR
                             /\ ptask[e].id = 0
    /\ _last_task_id = 0

\* The identifiers from a to b in cyclic order, a and b left out.
Between(a, b) ==
    {i \in Ids : \E k \in 1..(PTASK_MAX - 1) :
                    /\ i = (a + k) % PTASK_MAX
                    /\ \A j \in 1..k : (a + j) % PTASK_MAX # b}

\* C36: while an identifier is free, the search of _ptask_new_id ends and a
\* successful init assigns the first identifier in cyclic order after
\* _last_task_id, the one assigned last, that is not in use; the first init
\* assigns 0.
C36_RoundRobin ==
    /\ _ptask_canallocate(Reg) => \E i \in Ids : ~_used_ids[i]
    /\ \A d \in Descs :
         LET res == ptask_init(Reg, d)
             id == res.S.t[d].id
         IN res.err = 0
            => /\ id \in Ids
               /\ ~_used_ids[id]
               /\ res.S.last = id
               /\ \A i \in Between(_last_task_id, id) : _used_ids[i]
               /\ _last_task_id = -1 => id = 0
               /\ (_last_task_id # -1 /\ ~_used_ids[(_last_task_id + 1) % PTASK_MAX])
                  => id = (_last_task_id + 1) % PTASK_MAX

\* The identifier 0 was assigned and released, and nothing is allocated: the
\* next init assigns 1, not 0.
C36_Witness ==
    /\ _last_task_id = 0
    /\ _ntasks = 0
    /\ \A i \in Ids : ~_used_ids[i]
    /\ \E d \in Descs : ptask_init(Reg, d).S.t[d].id = 1

(***************************************************************************)
(* Properties of the identifiers of the CABs                               *)
(***************************************************************************)

\* C32: ptask_cab_init fails with EINVAL when n is greater than
\* PTASK_CAB_MAX_SIZE, and otherwise with EAGAIN exactly when PTASK_CAB_MAX
\* initialisations have succeeded; a failing call changes nothing and a
\* successful one leaves last_index at -1 and every busy count at 0.
C32_InitLimits ==
    \A n \in CabSizes :
        LET res == ptask_cab_init_on(Cab, n) IN
          /\ n > PTASK_CAB_MAX_SIZE => res.err = EINVAL
          /\ n <= PTASK_CAB_MAX_SIZE
             => (res.err = EAGAIN) = (Len(given) = PTASK_CAB_MAX)
          /\ res.err \in {0, EINVAL, EAGAIN}
          /\ res.err # 0 => res.C = Cab
          /\ res.err = 0 => /\ res.C.last_index = NO_INDEX
                            /\ \A i \in Indices : res.C.busy[i] = 0

\* C33: the ids assigned by the successful calls of ptask_cab_init are
\* strictly increasing, whether the structure was initialised again while in
\* use or after ptask_cab_destroy; the structure carries the last one.
C33_IdsIncrease ==
    /\ \A i, j \in 1..Len(given) : i < j => given[i] < given[j]
    /\ cab_id # 0 => cab_id = given[Len(given)]
    /\ \A n \in CabSizes :
         LET res == ptask_cab_init_on(Cab, n) IN
           res.err = 0 => \A i \in 1..Len(given) : res.C.id > given[i]

\* The CAB was initialised a second time and then destroyed: the next
\* ptask_cab_init gives it the id 3.
C33_Witness ==
    /\ cab_id = 0
    /\ given = <<1, 2>>
    /\ ptask_cab_init_on(Cab, 2).err = 0
    /\ ptask_cab_init_on(Cab, 2).C.id = 3

(***************************************************************************)
(* Properties of the time functions                                        *)
(***************************************************************************)

Normalised(t) == t.tv_nsec >= 0 /\ t.tv_nsec < 1000000000

\* The normalised value of t + d.
Sum(t, d) ==
    IF t.tv_nsec + d.tv_nsec >= 1000000000
    THEN [tv_sec |-> t.tv_sec + d.tv_sec + 1,
          tv_nsec |-> t.tv_nsec + d.tv_nsec - 1000000000]
    ELSE [tv_sec |-> t.tv_sec + d.tv_sec, tv_nsec |-> t.tv_nsec + d.tv_nsec]

\* C34: for normalised t1 and t2, time_diff returns 0 and leaves in tdest the
\* normalised difference (t1 + tdest = t2) when t2 >= t1, and returns a
\* non-zero value and leaves tdest as it was when t2 < t1.
C34_DiffIsDifference ==
    tcall.op = "diff"
    => IF time_cmp(tcall.t2, tcall.t1) >= 0
       THEN /\ tcall.ret = 0
            /\ Normalised(tcall.tdest)
            /\ Sum(tcall.t1, tcall.tdest) = tcall.t2
       ELSE /\ tcall.ret # 0
            /\ tcall.tdest = tcall.tdest0

\* C40: for a normalised t and ms >= 0, time_add_ms gives the normalised
\* timespec that is ms milliseconds later.
C40_AddKeepsNormalised ==
    tcall.op = "add"
    => /\ Normalised(tcall.tdest)
       /\ tcall.tdest =
            Sum(tcall.t1, [tv_sec |-> tcall.ms \div 1000,
                           tv_nsec |-> (tcall.ms % 1000) * 1000000])


(* ---- C37 ---- *)

\* The clients that hold buffer i: the readers whose token is i, and the
\* writer when i is its reservation not yet committed.
Holders(i) ==
    Cardinality({r \in Readers : rtok[r] = i}) + (IF wtok = i THEN 1 ELSE 0)

\* C37: with one writer and clients that commit or release every token once,
\* in every reachable state busy[i] is the number of readers that hold buffer
\* i, plus one if the writer holds i as a reservation it has not committed.
\* The equation holds for any number of readers, hence for at most n - 2.
C37_BusyCountsHolders == \A i \in Indices : busy[i] = Holders(i)

\* Three buffers, one reader holding the published buffer while the writer
\* holds another one as an uncommitted reservation: the case of n - 2 readers.
C37_Witness ==
    /\ num_buffers = 3
    /\ wtok \in 0..2
    /\ rtok[1] \in 0..2
    /\ rtok[1] # wtok
    /\ rtok[2] = NO_INDEX
    /\ seq > 0
    /\ busy[wtok] = 1
    /\ busy[rtok[1]] = 1


(* ---- C38 ---- *)

\* C38: every task that initialize_tasks starts is joined by join_tasks, so
\* when main_wait has returned and main is back in terminal_mode no
\* identifier of the registry is in use, and initialize_tasks never fails
\* because ptask_init finds the registry full, however many sessions run.
C38_SessionsLeaveNoSlot ==
    /\ mpc = "terminal_mode" => registry.ntasks = 0
    /\ ~(mpc = "aborted" /\ ~(registry.ntasks < MaxIds))

(* ---- C39 ---- *)

\* C39: once a task is in main_terminate_tasks, the main thread leaves the
\* wait of main_wait, the threads of the tasks leave their loops and return,
\* and main_wait returns after join_tasks has joined them: main comes back
\* to terminal_mode (unless abort_on_error has ended the process).
C39_ShutdownIsLive ==
    (tpc[TASK_UI] = "signal") ~> (mpc \in {"terminal_mode", "aborted"})

====
